---- MODULE Spec2Model ----
(***************************************************************************)
(* Model of the authorization core of the Concierge Bank backend:          *)
(*   - the OTP / 2FA engine            (services/twofa.py, routes/auth.py, *)
(*                                      routes/settings.py)                *)
(*   - the PIN gate and the balance engine (auth/middleware.py,            *)
(*     routes/transfers.py, routes/bills.py, utils/db_helpers.py)          *)
(*   - check deposits                  (routes/checks.py)                  *)
(*   - notify_user                     (services/notification_helper.py)   *)
(*   - account creation                (routes/accounts.py)                *)
(*   - the rate limiter                (utils/bot_prevention.py)           *)
(*   - card numbers                    (utils/generators.py,               *)
(*                                      utils/validators.py)               *)
(*   - tokens, user settings and the administration of users               *)
(*     (auth/jwt_handler.py, routes/settings.py, routes/admin.py)          *)
(*                                                                         *)
(* Modelling conventions.                                                  *)
(*  * The store (the BaaS tables) is the shared state.  A request runs in  *)
(*    a slot; it advances one store call per step, since the service runs  *)
(*    several worker processes against one store (run.py).  A store call   *)
(*    may raise; the handler's own try/except decides what happens then.   *)
(*  * Names are bound as the source intends them: TwoFactorAuthService in  *)
(*    routes/settings.py, require_pin in routes/bills.py and               *)
(*    create_transaction_record in routes/bills.py denote the definitions  *)
(*    of those names in services/twofa.py, auth/middleware.py and          *)
(*    utils/db_helpers.py; a stacked decorator hands the wrapped handler   *)
(*    the user and the route arguments once.                               *)
(*  * Strings whose digits or length the code inspects are sequences of    *)
(*    one-character strings.  SHA-256 is taken to be injective, so a hash  *)
(*    is represented by the string that is hashed.                         *)
(*  * Time is counted in ticks of MinutesPerTick minutes.  ISO timestamps  *)
(*    that the code only writes and never reads are the token "ts".        *)
(***************************************************************************)
EXTENDS Integers, Sequences, FiniteSets, TLC

\* ------------------------------------------------------------ bounds
MaxTime == 3            \* the clock stops after this many ticks
MinutesPerTick == 5     \* granularity of the clock

\* --------------------------------------------------- program constants
OTP_LENGTH == 6
OTP_VALIDITY_MINUTES == 10
MAX_FAILED_ATTEMPTS == 3

Users == {"u1"}
Slots == {1, 2}

\* ------------------------------------------------- preference blob
\* users.notification_preferences is a JSON object: a map with a sparse
\* set of keys.
EmptyBlob == [k \in {} |-> TRUE]

Get(b, k, default) == IF k \in DOMAIN b THEN b[k] ELSE default

\* dict.update(d)
DictUpdate(b, d) ==
    [k \in DOMAIN b \cup DOMAIN d |-> IF k \in DOMAIN d THEN d[k] ELSE b[k]]

\* for field in fields: dict.pop(field, None)
DictPop(b, fields) == [k \in DOMAIN b \ fields |-> b[k]]

\* ---------------------------------------------------- input sets
\* generate_otp draws OTP_LENGTH random digits; two of its outcomes
OtpCodes == { <<"1", "2", "3", "4", "5", "6">>, <<"6", "5", "4", "3", "2", "1">> }

\* setup_2fa draws BACKUP_CODE_COUNT codes of BACKUP_CODE_LENGTH random
\* alphanumeric characters each, independently: a draw may repeat a code
BACKUP_CODE_COUNT == 8
BACKUP_CODE_LENGTH == 10
Letters == <<"a", "b", "c", "d", "e", "f", "g", "h">>
Code10(c) == [i \in 1..BACKUP_CODE_LENGTH |-> c]
BackupDraws ==
    { [i \in 1..BACKUP_CODE_COUNT |-> Code10(Letters[i])],
      [i \in 1..BACKUP_CODE_COUNT |-> Code10(IF i = 2 THEN "a" ELSE Letters[i])] }
\* backup codes a client submits: two that setup can draw, one it cannot
BackupInputs == { Code10("a"), Code10("b"), Code10("z") }

\* bodies of PUT /api/settings/notifications
PrefInputs == { EmptyBlob, [email_security |-> FALSE] }

\* ------------------------------------------------ OTP / 2FA engine
\* hashlib.sha256(f"{otp}{salt}") : the hashed string stands for its digest
hash_otp(otp, salt) == otp \o salt

verify_otp_hash(otp, stored_hash, salt) == hash_otp(otp, salt) = stored_hash

\* f"{user_id}_{int(time.time())}"
OtpSalt(user, t) == <<user, "_", t>>

\* the salt of a backup code is the user id
BackupSalt(user) == <<user>>

Minutes(t) == t * MinutesPerTick

\* otp_data of send_otp_email, built at tick t
OtpData(otp, user, t) ==
    [ otp_hash     |-> hash_otp(otp, OtpSalt(user, t)),
      otp_salt     |-> OtpSalt(user, t),
      otp_expiry   |-> Minutes(t) + OTP_VALIDITY_MINUTES,
      otp_attempts |-> 0,
      updated_at   |-> "ts" ]

\* setup_data of setup_2fa for a draw of plaintext codes
HashCodes(draw, user) == [i \in DOMAIN draw |-> hash_otp(draw[i], BackupSalt(user))]

SetupData(draw, user) ==
    [ two_factor_enabled    |-> TRUE,
      two_factor_setup_date |-> "ts",
      backup_codes          |-> HashCodes(draw, user),
      failed_attempts       |-> 0,
      last_failed_attempt   |-> "None",
      updated_at            |-> "ts" ]

\* twofa_fields of disable_2fa
twofa_fields ==
    {"two_factor_enabled", "two_factor_setup_date", "backup_codes",
     "failed_attempts", "last_failed_attempt"}

DisabledPrefs(b) == DictPop(b, twofa_fields)

\* prefs.get('two_factor_enabled') / is_2fa_enabled on a blob that was read
TwoFactorEnabled(b) == Get(b, "two_factor_enabled", FALSE)

ChallengeKeys == {"otp_hash", "otp_salt", "otp_expiry"}

\* not (not otp_hash or not otp_salt or not otp_expiry)
HasChallenge(b) == ChallengeKeys \subseteq DOMAIN b

\* mutant: the comparison of the expiry check is reversed
IsExpired_Reversed(nowMin, expiry) == expiry > nowMin

\* datetime.utcnow() > datetime.fromisoformat(otp_expiry)
IsExpired(nowMin, expiry) == nowMin > expiry

\* mutant: the limit is tested with > instead of >=
AttemptsExhausted_OffByOne(attempts) == attempts > MAX_FAILED_ATTEMPTS

\* attempts >= cls.MAX_FAILED_ATTEMPTS
AttemptsExhausted(attempts) == attempts >= MAX_FAILED_ATTEMPTS

\* the blob verify_otp writes after a mismatch
CountFailure(b) ==
    DictUpdate(b, [ otp_attempts        |-> Get(b, "otp_attempts", 0) + 1,
                    last_failed_attempt |-> "ts",
                    updated_at          |-> "ts" ])

\* mutant: the attempt counter is reset but the challenge stays stored
ClearChallenge_KeepsChallenge(b) ==
    DictUpdate(b, [otp_attempts |-> 0, updated_at |-> "ts"])

\* the blob verify_otp writes after a match
ClearChallenge(b) ==
    DictUpdate(DictPop(b, ChallengeKeys), [otp_attempts |-> 0, updated_at |-> "ts"])

NoWrite(result) == [res |-> result, write |-> FALSE, blob |-> EmptyBlob]
Write(result, b) == [res |-> result, write |-> TRUE, blob |-> b]

\* verify_otp on the blob b it has read, at minute nowMin
verify_otp(b, otp, nowMin) ==
    IF ~TwoFactorEnabled(b) THEN NoWrite("NotEnabled")
    ELSE IF ~HasChallenge(b) THEN NoWrite("NoActiveChallenge")
    ELSE IF IsExpired(nowMin, b.otp_expiry) THEN NoWrite("Expired")
    ELSE IF AttemptsExhausted(Get(b, "otp_attempts", 0)) THEN NoWrite("TooManyAttempts")
    ELSE IF ~verify_otp_hash(otp, b.otp_hash, b.otp_salt)
         THEN Write("InvalidCode", CountFailure(b))
         ELSE Write("Success", ClearChallenge(b))

\* list.remove(x): drops the first occurrence of x
RECURSIVE ListRemove(_, _)
ListRemove(l, x) ==
    IF l = <<>> THEN <<>>
    ELSE IF Head(l) = x THEN Tail(l)
    ELSE <<Head(l)>> \o ListRemove(Tail(l), x)

InList(l, x) == \E i \in DOMAIN l : l[i] = x

Occurrences(l, x) == Cardinality({i \in DOMAIN l : l[i] = x})

\* mutant: the used code is not removed from the list
ConsumeBackupCode_KeepsCode(b, code_hash) ==
    DictUpdate(b, [backup_codes |-> b.backup_codes, updated_at |-> "ts"])

\* the blob verify_backup_code writes after a match
ConsumeBackupCode(b, code_hash) ==
    DictUpdate(b, [ backup_codes |-> ListRemove(b.backup_codes, code_hash),
                    updated_at   |-> "ts" ])

\* verify_backup_code on the blob b it has read
verify_backup_code(b, user, backup_code) ==
    IF ~TwoFactorEnabled(b) THEN NoWrite("NotEnabled")
    ELSE IF Get(b, "backup_codes", <<>>) = <<>> THEN NoWrite("NoCodesAvailable")
    ELSE IF ~InList(b.backup_codes, hash_otp(backup_code, BackupSalt(user)))
         THEN NoWrite("InvalidCode")
         ELSE Write("Success", ConsumeBackupCode(b, hash_otp(backup_code, BackupSalt(user))))

\* --------------------------------------- PIN gate and balance engine
MaxRequests == 2        \* transfer / bill payment requests received in a run

PIN_LENGTH == 6

\* amounts are counted in tenths of a cent
Dollars(n) == n * 1000
Cents(n) == n * 10

\* amount > 1000000
MAX_TRANSFER_DOLLARS == 1000000

Accounts == {"a1", "a2", "b1"}
\* accounts.user_id: a1 and a2 belong to u1, b1 to somebody else
AccountOwner == [a \in Accounts |-> IF a = "b1" THEN "u2" ELSE "u1"]
AccountInputs == Accounts \cup {"none"}

BillIds == {"bill1", "bill2"}
\* bills.user_id
BillOwner == [b \in BillIds |-> IF b = "bill2" THEN "u2" ELSE "u1"]

\* the Authorization header: none, or a token with the account_status it carries
TokenInputs == {"none", "active", "blocked", "suspended"}

\* data.get('pin'): absent, a JSON number, or a string
NoPinInput == [kind |-> "none", chars |-> <<>>]
PinStr(chars) == [kind |-> "str", chars |-> chars]
PinInputs ==
    { NoPinInput,
      [kind |-> "int", chars |-> <<>>],
      PinStr(<<"1", "2", "3", "4", "5", "6">>),
      PinStr(<<"6", "5", "4", "3", "2", "1">>),
      PinStr(<<"1", "2", "3", "4", "5">>),
      PinStr(<<"1", "2", "3", "4", "5", "x">>) }

\* users.transaction_pin_hash: None, or the PIN an administrator has set
NoPin == <<>>
StoredPins == { NoPin, <<"1", "2", "3", "4", "5", "6">> }

Digits == {"0", "1", "2", "3", "4", "5", "6", "7", "8", "9"}

\* str.isdigit()
isdigit(str) == str # <<>> /\ \A i \in DOMAIN str : str[i] \in Digits

\* not provided_pin
PinMissing(p) == p.kind = "none" \/ (p.kind = "str" /\ p.chars = <<>>)

\* isinstance(provided_pin, str) and provided_pin.isdigit() and len(provided_pin) == 6
PinFormatOk(p) == p.kind = "str" /\ isdigit(p.chars) /\ Len(p.chars) = PIN_LENGTH

\* mutant: the comparison with the stored PIN accepts every PIN
PinEquals_AcceptsAll(provided, stored_hash) == TRUE

\* provided_pin == stored_hash
PinEquals(provided, stored_hash) == provided.chars = stored_hash

\* the checks of the PIN before the store is asked
CheckPinFormat(p) ==
    IF PinMissing(p) THEN "PinRequired"
    ELSE IF ~PinFormatOk(p) THEN "PinFormat"
    ELSE "ok"

\* the checks of the PIN against the stored one
CheckPin(p, stored_hash) ==
    IF stored_hash = NoPin THEN "PinNotSet"
    ELSE IF ~PinEquals(p, stored_hash) THEN "InvalidPin"
    ELSE "ok"

\* require_auth on the token of the request
require_auth(token) ==
    IF token = "none" THEN "Unauthorized"
    ELSE IF token = "blocked" THEN "AccountBlocked"
    ELSE IF token = "suspended" THEN "AccountSuspended"
    ELSE "ok"

\* data['amount']: absent, a text that is no number, or a number
NoAmount == [kind |-> "none", v |-> 0]
Num(n) == [kind |-> "num", v |-> n]
AmountInputs ==
    { NoAmount, [kind |-> "text", v |-> 0],
      Num(0 - Dollars(1)), Num(0), Num(5),
      Num(Dollars(2)), Num(Dollars(4)),
      Num(Dollars(MAX_TRANSFER_DOLLARS) + 1) }

\* the validation of the amount of a transfer
ValidateAmount(a) ==
    IF a.kind = "none" \/ (a.kind = "num" /\ a.v = 0) THEN "AmountRequired"
    ELSE IF a.kind = "text" THEN "InvalidAmountFormat"
    ELSE IF a.v <= 0 THEN "AmountNotPositive"
    ELSE IF a.v > Dollars(MAX_TRANSFER_DOLLARS) THEN "AmountOverLimit"
    ELSE IF a.v < Cents(1) THEN "AmountTooSmall"
    ELSE "ok"

\* the validation of the amount of a check deposit
MAX_CHECK_DOLLARS == 100000
CheckAmountInputs ==
    { NoAmount, [kind |-> "text", v |-> 0], Num(0 - Dollars(1)), Num(0),
      Num(Dollars(2)), Num(Dollars(MAX_CHECK_DOLLARS) + 1) }
ValidateCheckAmount(a) ==
    IF a.kind = "none" \/ (a.kind = "num" /\ a.v = 0) THEN "AmountRequired"
    ELSE IF a.kind = "text" THEN "InvalidAmountFormat"
    ELSE IF a.v <= 0 THEN "AmountNotPositive"
    ELSE IF a.v > Dollars(MAX_CHECK_DOLLARS) THEN "AmountOverLimit"
    ELSE "ok"

\* data.get('transfer_type', 'internal')
TypeInputs == {"none", "internal", "external", "p2p", "wire"}
TransferType(t) == IF t = "none" THEN "internal" ELSE t
ValidateType(t) ==
    IF TransferType(t) \in {"internal", "external", "p2p"} THEN "ok" ELSE "InvalidTransferType"

\* data.get('to_external', {})
Rep(n, c) == [i \in 1..n |-> c]
ExtNone == [account_number |-> <<>>, routing_number |-> <<>>, email |-> "", phone |-> ""]
ExtBank(acc, rt) == [account_number |-> acc, routing_number |-> rt, email |-> "", phone |-> ""]
ExtInputs ==
    { ExtNone,
      ExtBank(Rep(4, "7"), Rep(9, "1")),
      ExtBank(Rep(4, "7"), Rep(8, "1")),
      ExtBank(Rep(3, "7"), Rep(9, "1")),
      [account_number |-> <<>>, routing_number |-> <<>>, email |-> "a@b", phone |-> ""] }

\* the to_external of the body, which only external and p2p transfers read
ToExternal(t) == IF t = "internal" THEN {ExtNone} ELSE ExtInputs

\* mutant: every recipient of an external transfer is accepted
ValidateExternal_AcceptsAll(e) == "ok"

\* the validation of the recipient of an external transfer
ValidateExternal(e) ==
    IF e.account_number = <<>> \/ e.routing_number = <<>> THEN "ExternalInfoRequired"
    ELSE IF Len(e.routing_number) # 9 \/ ~isdigit(e.routing_number) THEN "InvalidRoutingNumber"
    ELSE IF ~isdigit(e.account_number) \/ Len(e.account_number) < 4 THEN "InvalidAccountNumber"
    ELSE "ok"

\* mutant: every recipient of a p2p transfer is accepted
ValidateP2p_AcceptsAll(e) == "ok"

\* the validation of the recipient of a p2p transfer
ValidateP2p(e) ==
    IF e.email = "" /\ e.phone = "" THEN "RecipientRequired" ELSE "ok"

\* mutant: the check lets every amount pass
check_sufficient_balance_AlwaysPasses(account_balance, amount) == TRUE

\* mutant: the check lets an amount of one dollar above the balance pass
check_sufficient_balance_OffByOne(account_balance, amount) ==
    ~(account_balance + Dollars(1) < amount)

\* check_sufficient_balance: not (account_data['balance'] < amount)
check_sufficient_balance(account_balance, amount) == ~(account_balance < amount)

\* mutant: the amount is added to the balance that was read
DebitedBalance_Adds(account_balance, amount) == account_balance + amount

\* new_from_balance = from_account['balance'] - amount
DebitedBalance(account_balance, amount) == account_balance - amount

\* mutant: the destination keeps the balance that was read
CreditedBalance_NoCredit(account_balance, amount) == account_balance

\* new_to_balance = to_account['balance'] + amount
CreditedBalance(account_balance, amount) == account_balance + amount

\* mutant: every Transaction is recorded as a credit
TransactionRow_AlwaysCredit(account_id, transaction_type, amount, category) ==
    [account_id |-> account_id, type |-> "credit",
     amount |-> amount, category |-> category]

\* transaction_data of create_transaction_record
TransactionRow(account_id, transaction_type, amount, category) ==
    [account_id |-> account_id, type |-> transaction_type,
     amount |-> amount, category |-> category]

\* ------------------------------------------------------------ rate limiter
MaxChecks == 7       \* rate limit checks made in a run

MAX_REGISTRATIONS_PER_HOUR == 5
MAX_LOGINS_PER_MINUTE == 10
HOUR == 60           \* timedelta(hours=1), in minutes
MINUTE == 1          \* timedelta(minutes=1), in minutes

IPs == {"10.0.0.1", ""}
RateActions == {"register", "login", "other"}

\* _clean_old_entries: the timestamps newer than the cutoff
clean_old_entries(entries, nowMin, time_window) ==
    SelectSeq(entries, LAMBDA ts : ts > nowMin - time_window)

\* the window and the cap of an action
RateWindow(action) == IF action = "register" THEN HOUR ELSE MINUTE
RateCap(action) ==
    IF action = "register" THEN MAX_REGISTRATIONS_PER_HOUR ELSE MAX_LOGINS_PER_MINUTE

\* check_rate_limit: the answer and the list it leaves for the IP
check_rate_limit(entries, ip_address, action, nowMin) ==
    IF ip_address = "" \/ action \notin {"register", "login"}
    THEN [allowed |-> TRUE, entries |-> entries]
    ELSE LET kept == clean_old_entries(entries, nowMin, RateWindow(action))
         IN  IF Len(kept) >= RateCap(action)
             THEN [allowed |-> FALSE, entries |-> kept]
             ELSE [allowed |-> TRUE, entries |-> Append(kept, nowMin)]

\* ------------------------------------------------------------ notify_user
MaxNotifies == 2     \* calls of notify_user made in a run

NotificationTypes ==
    {"transaction", "transfer", "account_created", "bill_payment", "bill_due",
     "security", "login_alert", "card_issue_reported", "password_changed", "check_deposit"}

\* users.notification_preferences as the user may have saved them
NotifyPrefInputs ==
    { EmptyBlob, [email_security |-> FALSE], [email_bills |-> FALSE],
      [email_transactions |-> FALSE, email_bills |-> TRUE] }

\* mutant: the email is sent whatever the preferences say
should_send_email_IgnoresPrefs(notification_type, user_prefs) == TRUE

\* should_send_email of notify_user: the preference of the type, merged over
\* the defaults
should_send_email(notification_type, user_prefs) ==
    IF notification_type \in {"transaction", "transfer", "account_created"}
    THEN Get(user_prefs, "email_transactions", TRUE)
    ELSE IF notification_type \in {"bill_payment", "bill_due"}
    THEN Get(user_prefs, "email_bills", TRUE)
    ELSE IF notification_type \in {"security", "login_alert", "card_issue_reported",
                                   "password_changed"}
    THEN Get(user_prefs, "email_security", TRUE)
    ELSE TRUE

\* ------------------------------------------------------------ create_account
MaxCreates == 3      \* create_account requests received in a run

PREDEFINED_BLOCKS == 3       \* the leading digits 1, 2, 3 of the predefined numbers
PREDEFINED_PER_BLOCK == 10   \* the serials 01 .. 10 of each block

\* predefined_accounts, as a list: '100000000001' is block 1, serial 1
predefined_accounts ==
    [i \in 1..(PREDEFINED_BLOCKS * PREDEFINED_PER_BLOCK) |->
        [block |-> ((i - 1) \div PREDEFINED_PER_BLOCK) + 1,
         serial |-> ((i - 1) % PREDEFINED_PER_BLOCK) + 1]]

\* predefined_accounts[len(existing_accounts.data) % len(predefined_accounts)];
\* the lists of Python start at 0
AccountNumberFor(existing_count) ==
    predefined_accounts[(existing_count % Len(predefined_accounts)) + 1]

AccountTypes == {"Checking", "Savings"}

AccountRow(u, number, account_type) ==
    [user_id |-> u, account_number |-> number, account_type |-> account_type]

\* the table after n accounts were created one after the other
CreatedInOrder(n) == [i \in 1..n |-> AccountRow("u1", AccountNumberFor(i - 1), "Checking")]

\* ------------------------------------------------------------ card numbers
RandomTail == 2      \* the random digits at the end of the number that take every value

CARD_NUMBER_LENGTH == 16

\* numbers are sequences of digits 0 .. 9, the most significant first
DefaultPrefix == <<4>>

\* the random digits: the last RandomTail of them take every value, the ones
\* before them are all the same
RandomDigits(n) ==
    { [i \in 1..n |-> IF i > n - RandomTail THEN tail[i - (n - RandomTail)] ELSE fill] :
        tail \in [1..RandomTail -> 0..9], fill \in {0, 3, 6, 9} }

RECURSIVE SumSeq(_)
SumSeq(q) == IF q = <<>> THEN 0 ELSE Head(q) + SumSeq(Tail(q))

\* int(number): leading zeros do not count
RECURSIVE IntOf(_)
IntOf(str) == IF Len(str) > 1 /\ Head(str) = 0 THEN IntOf(Tail(str)) ELSE str

\* digits_of of a number below 100, here the double of a digit
digits_of(n) == IF n < 10 THEN <<n>> ELSE <<n \div 10, n % 10>>

\* digits[-k::-2]: the k-th digit from the right and every second one to its left
EveryOtherFromRight(digits, k) ==
    [i \in 1..((Len(digits) - k + 2) \div 2) |-> digits[Len(digits) - k + 1 - 2 * (i - 1)]]

\* luhn_checksum of the number with these digits
luhn_checksum(digits) ==
    LET odd_digits == EveryOtherFromRight(digits, 1)
        even_digits == EveryOtherFromRight(digits, 2)
    IN  (SumSeq(odd_digits)
         + SumSeq([i \in DOMAIN even_digits |-> SumSeq(digits_of(even_digits[i] * 2))])) % 10

\* generate_card_number with the random digits drawn
generate_card_number(prefix, random) ==
    LET number == prefix \o random
        check_digit == (10 - luhn_checksum(IntOf(number))) % 10
    IN  number \o <<check_digit>>

\* ------------------------------------------------------------ state
VARIABLES
    now,        \* the clock, in ticks
    prefs,      \* users.notification_preferences, per user
    session,    \* the users who hold a session token
    req,        \* the auth / settings requests in flight, per slot
    consumed,   \* history: the OTP last verified since the last challenge was stored
    issued,     \* history: the otp_hash stored by the last send_otp_email
    usedBackup, \* history: the backup code last consumed from a list that held it once
    pin,            \* users.transaction_pin_hash, per user
    blocked,        \* users.transactions_blocked, per user
    balance,        \* accounts.balance, per account
    transfers,      \* the rows of table transfers, in insertion order
    bill_payments,  \* the rows of table bill_payments, in insertion order
    transactions,   \* the rows of table transactions, in insertion order
    notifications,  \* the rows of table notifications, in insertion order
    checks,         \* the rows of table checks, in insertion order
    pay,            \* the transfer / bill payment requests in flight, per slot
    started,        \* the number of transfer / bill payment requests received
    writes,         \* history: the store writes of the request in each slot, in order
    rate_limit_store,   \* _rate_limit_store: per IP, the timestamps kept, in minutes
    rate_checked,       \* the number of rate limit checks made
    rate_allowed,       \* history: per IP and action, the times of the checks allowed
    notify,             \* the call of notify_user in flight
    emails,             \* the calls of send_email, in order
    notify_calls,       \* the number of calls of notify_user made
    accounts_table,     \* the rows of table accounts, in insertion order
    acct,               \* the create_account requests in flight, per slot
    acct_started,       \* the number of create_account requests received
    card_number,        \* the card number generated last
    role,               \* users.role, per user
    account_status,     \* users.account_status, per user
    adm                 \* the settings / administration request served last

vars2fa == <<now, prefs, session, req, consumed, issued, usedBackup>>
varsPay == <<pin, blocked, balance, transfers, bill_payments, transactions,
             notifications, checks, pay, started, writes>>
varsRate == <<rate_limit_store, rate_checked, rate_allowed>>
varsNotify == <<notify, emails, notify_calls>>
varsAccounts == <<accounts_table, acct, acct_started>>
varsCard == <<card_number>>
varsAdmin == <<role, account_status, adm>>
varsAux == <<varsRate, varsNotify, varsAccounts, varsCard, varsAdmin>>
vars == <<vars2fa, varsPay, varsAux>>

PayIdle == [op |-> "none", pc |-> "idle", user |-> "-", pin |-> NoPinInput,
            bill |-> "none", from |-> "none", amount |-> NoAmount, type |-> "none",
            to |-> "none", ext |-> ExtNone, status |-> "-",
            from_balance |-> 0, to_balance |-> 0, res |-> "-"]

PayFree(s) == pay[s].pc \in {"idle", "done"}

\* a new request is served in the lowest slot that is free
PayCanStart(s) == PayFree(s) /\ \A r \in Slots : r < s => ~PayFree(r)

\* the response; of the request the slot keeps what was asked for
PayFinish(r, result) ==
    [r EXCEPT !.pc = "done", !.res = result, !.from_balance = 0, !.to_balance = 0,
              !.ext = IF result \in {"AccountNotFound", "InsufficientFunds"} THEN @ ELSE ExtNone,
              !.status = "-"]

\* an exception the handler does not catch: in pay_bill it is caught by
\* require_pin, which wraps the handler; in create_transfer by nobody
Crash(r) ==
    PayFinish(r, IF r.op = "pay_bill" THEN "PinVerificationFailed" ELSE "InternalError")

Recorded(s, what) == writes' = [writes EXCEPT ![s] = Append(@, what)]

\* the balances the accounts were opened with
OpeningBalance == [a \in Accounts |-> IF a = "a1" THEN Dollars(3) ELSE Dollars(2)]

\* the store as nobody has used it yet
InitStore ==
    /\ balance = OpeningBalance
    /\ transfers = <<>>
    /\ bill_payments = <<>>
    /\ transactions = <<>>
    /\ notifications = <<>>
    /\ checks = <<>>
    /\ pay = [s \in Slots |-> PayIdle]
    /\ started = 0
    /\ writes = [s \in Slots |-> <<>>]

\* the PIN gate and the balance engine at rest
PayAtRest ==
    /\ InitStore
    /\ pin = [u \in Users |-> NoPin]
    /\ blocked = [u \in Users |-> FALSE]

\* the rate limiter of a worker that has just started
RateAtRest ==
    /\ rate_limit_store = [ip \in IPs |-> <<>>]
    /\ rate_checked = 0
    /\ rate_allowed = [ip \in IPs |-> [a \in RateActions |-> <<>>]]

\* no call of notify_user yet
NotifyIdle == [pc |-> "idle", user |-> "-", type |-> "-", subject |-> FALSE, html |-> FALSE,
               should_send_email |-> FALSE, email |-> "unread", sent |-> FALSE,
               logged |-> 0, res |-> "-"]
NotifyAtRest ==
    /\ notify = NotifyIdle
    /\ emails = <<>>
    /\ notify_calls = 0

\* no account created yet
AcctIdle == [pc |-> "idle", user |-> "-", type |-> "-", count |-> 0, res |-> "-"]
AccountsAtRest ==
    /\ accounts_table = <<>>
    /\ acct = [s \in Slots |-> AcctIdle]
    /\ acct_started = 0

\* no card number generated yet
NoCard == <<>>
CardAtRest == card_number = NoCard

\* every user is a plain user in good standing; no settings or administration
\* request served yet
AdmIdle == [op |-> "none", caller |-> "-", role |-> "-", target |-> "-", res |-> "-"]
AdminAtRest ==
    /\ role = [u \in Users |-> "user"]
    /\ account_status = [u \in Users |-> "active"]
    /\ adm = AdmIdle

AuxAtRest == RateAtRest /\ NotifyAtRest /\ AccountsAtRest /\ CardAtRest /\ AdminAtRest

NoCode == <<>>

Idle == [op |-> "none", pc |-> "idle", user |-> "-", code |-> NoCode,
         t |-> 0, loc |-> EmptyBlob, mail |-> NoCode, res |-> "-"]

Free(s) == req[s].pc \in {"idle", "done"}

\* a new request is served in the lowest slot that is free
CanStart(s) == Free(s) /\ \A r \in Slots : r < s => ~Free(r)

Begin(operation, u, c, first) ==
    [op |-> operation, pc |-> first, user |-> u, code |-> c,
     t |-> 0, loc |-> EmptyBlob, mail |-> NoCode, res |-> "-"]

Finish(r, result) ==
    [r EXCEPT !.pc = "done", !.res = result, !.loc = EmptyBlob, !.t = 0]

\* a user whose 2FA was set up earlier and who has used all backup codes but one
LastCodePrefs(u) == SetupData(<<Code10("a")>>, u)

\* either nobody has set up 2FA yet, or every user did so in a session that
\* is still valid
Init2fa ==
    /\ now = 0
    /\ \/ prefs = [u \in Users |-> EmptyBlob] /\ session = {}
       \/ prefs = [u \in Users |-> LastCodePrefs(u)] /\ session = Users
    /\ req = [s \in Slots |-> Idle]
    /\ consumed = [u \in Users |-> NoCode]
    /\ issued = [u \in Users |-> NoCode]
    /\ usedBackup = [u \in Users |-> NoCode]
    /\ PayAtRest
    /\ AuxAtRest

\* ----------------------------------------------------------- the clock
Tick ==
    /\ now < MaxTime
    /\ now' = now + 1
    /\ UNCHANGED <<prefs, session, req, consumed, issued, usedBackup, varsPay, varsAux>>

\* ------------------------------------------- POST /api/auth/login
\* sign_in_with_password and the read of the users row
LoginStart(s) ==
    /\ CanStart(s)
    /\ \E u \in Users, credentials_ok \in BOOLEAN :
          req' = [req EXCEPT ![s] =
                    IF credentials_ok
                    THEN Begin("login", u, NoCode, "is_2fa_enabled")
                    ELSE Finish(Begin("login", u, NoCode, "done"), "InvalidCredentials")]
    /\ UNCHANGED <<now, prefs, session, consumed, issued, usedBackup, varsPay, varsAux>>

\* is_2fa_enabled: a failed read counts as "not enabled"
is_2fa_enabled(b, read_ok) == IF read_ok THEN TwoFactorEnabled(b) ELSE FALSE

\* is_2fa_enabled, then either create_jwt_token or the start of send_otp_email
LoginIs2faEnabled(s) ==
    /\ req[s].pc = "is_2fa_enabled"
    /\ \E read_ok \in BOOLEAN, otp \in OtpCodes :
          IF is_2fa_enabled(prefs[req[s].user], read_ok)
          THEN /\ req' = [req EXCEPT ![s] =
                            [@ EXCEPT !.pc = "send_read", !.code = otp, !.t = now,
                                      !.loc = OtpData(otp, req[s].user, now)]]
               /\ UNCHANGED session
          ELSE /\ req' = [req EXCEPT ![s] = Finish(@, "LoginOK")]
               /\ session' = session \cup {req[s].user}
    /\ UNCHANGED <<now, prefs, consumed, issued, usedBackup, varsPay, varsAux>>

\* send_otp_email: read of the preference blob, merged with otp_data
SendOtpRead(s) ==
    /\ req[s].pc = "send_read"
    /\ \E read_ok \in BOOLEAN :
          req' = [req EXCEPT ![s] =
                    IF read_ok
                    THEN [@ EXCEPT !.pc = "send_write",
                                   !.loc = DictUpdate(prefs[req[s].user], req[s].loc)]
                    ELSE Finish(@, "SendFailed")]
    /\ UNCHANGED <<now, prefs, session, consumed, issued, usedBackup, varsPay, varsAux>>

\* send_otp_email: write of the merged blob
SendOtpWrite(s) ==
    /\ req[s].pc = "send_write"
    /\ \E write_ok \in BOOLEAN :
          IF write_ok
          THEN /\ prefs' = [prefs EXCEPT ![req[s].user] = req[s].loc]
               /\ issued' = [issued EXCEPT ![req[s].user] = req[s].loc.otp_hash]
               /\ consumed' = [consumed EXCEPT ![req[s].user] = NoCode]
               /\ req' = [req EXCEPT ![s] = [@ EXCEPT !.pc = "send_notify"]]
          ELSE /\ req' = [req EXCEPT ![s] = Finish(@, "SendFailed")]
               /\ UNCHANGED <<prefs, issued, consumed>>
    /\ UNCHANGED <<now, session, usedBackup, varsPay, varsAux>>

\* send_otp_email: notify_user with type 'security', whose exceptions
\* send_otp_email catches. notify_user raises if the read of the preferences
\* fails; it hands the code to send_email if the preferences allow security
\* emails and get_user_email finds an address (mail is the code handed over)
SendOtpNotify(s) ==
    /\ req[s].pc = "send_notify"
    /\ \E notify_ok \in BOOLEAN, found \in BOOLEAN :
          req' = [req EXCEPT ![s] =
                    IF ~notify_ok THEN Finish(@, "SendFailed")
                    ELSE Finish([@ EXCEPT !.mail =
                                    IF should_send_email("security", prefs[req[s].user]) /\ found
                                    THEN req[s].code ELSE NoCode],
                                "Requires2FA")]
    /\ UNCHANGED <<now, prefs, session, consumed, issued, usedBackup, varsPay, varsAux>>

\* ---------------------------------------- POST /api/auth/verify-2fa
VerifyStart(s) ==
    /\ CanStart(s)
    /\ \E u \in Users, otp_code \in OtpCodes :
          req' = [req EXCEPT ![s] = Begin("verify_2fa", u, otp_code, "verify_read")]
    /\ UNCHANGED <<now, prefs, session, consumed, issued, usedBackup, varsPay, varsAux>>

\* what a service call leaves in the slot once it has read the blob
AfterRead(r, outcome, write_pc) ==
    IF outcome.write
    THEN [r EXCEPT !.pc = write_pc, !.loc = outcome.blob, !.res = outcome.res]
    ELSE Finish(r, outcome.res)

\* the time in the salt of the challenge a blob holds
SaltTime(b) == b.otp_salt[3]

\* verify_otp: the read and every check up to the hash comparison; a request
\* that goes on to write keeps the salt it has read (t is its time)
VerifyOtpRead(s) ==
    /\ req[s].pc = "verify_read"
    /\ \E read_ok \in BOOLEAN :
          LET b == prefs[req[s].user]
              outcome == verify_otp(b, req[s].code, Minutes(now))
          IN  req' = [req EXCEPT ![s] =
                        IF ~read_ok THEN Finish(@, "Failed")
                        ELSE IF outcome.write
                             THEN [AfterRead(@, outcome, "verify_write") EXCEPT !.t = SaltTime(b)]
                             ELSE AfterRead(@, outcome, "verify_write")]
    /\ UNCHANGED <<now, prefs, session, consumed, issued, usedBackup, varsPay, varsAux>>

\* verify_otp: the write of the counted failure or of the cleared challenge
VerifyOtpWrite(s) ==
    /\ req[s].pc = "verify_write"
    /\ \E write_ok \in BOOLEAN :
          IF write_ok
          THEN /\ prefs' = [prefs EXCEPT ![req[s].user] = req[s].loc]
               /\ IF req[s].res = "Success"
                  THEN /\ req' = [req EXCEPT ![s] = [@ EXCEPT !.pc = "token", !.loc = EmptyBlob]]
                       /\ consumed' = [consumed EXCEPT ![req[s].user] = req[s].code]
                  ELSE /\ req' = [req EXCEPT ![s] = Finish(@, req[s].res)]
                       /\ UNCHANGED consumed
          ELSE /\ req' = [req EXCEPT ![s] = Finish(@, "Failed")]
               /\ UNCHANGED <<prefs, consumed>>
    /\ UNCHANGED <<now, session, issued, usedBackup, varsPay, varsAux>>

\* verify_2fa / verify_backup_code: the read of the users row, then create_jwt_token
IssueToken(s) ==
    /\ req[s].pc = "token"
    /\ \E read_ok \in BOOLEAN :
          IF read_ok
          THEN /\ req' = [req EXCEPT ![s] = Finish(@, "LoginOK")]
               /\ session' = session \cup {req[s].user}
          ELSE /\ req' = [req EXCEPT ![s] = Finish(@, "Failed")]
               /\ UNCHANGED session
    /\ UNCHANGED <<now, prefs, consumed, issued, usedBackup, varsPay, varsAux>>

\* ---------------------------------- POST /api/auth/verify-backup-code
BackupStart(s) ==
    /\ CanStart(s)
    /\ \E u \in Users, backup_code \in BackupInputs :
          req' = [req EXCEPT ![s] =
                    Begin("verify_backup_code", u, backup_code, "backup_read")]
    /\ UNCHANGED <<now, prefs, session, consumed, issued, usedBackup, varsPay, varsAux>>

BackupRead(s) ==
    /\ req[s].pc = "backup_read"
    /\ \E read_ok \in BOOLEAN :
          req' = [req EXCEPT ![s] =
                    IF read_ok
                    THEN AfterRead(@, verify_backup_code(prefs[req[s].user], req[s].user,
                                                         req[s].code), "backup_write")
                    ELSE Finish(@, "Failed")]
    /\ UNCHANGED <<now, prefs, session, consumed, issued, usedBackup, varsPay, varsAux>>

BackupWrite(s) ==
    /\ req[s].pc = "backup_write"
    /\ \E write_ok \in BOOLEAN :
          IF write_ok
          THEN /\ prefs' = [prefs EXCEPT ![req[s].user] = req[s].loc]
               /\ req' = [req EXCEPT ![s] = [@ EXCEPT !.pc = "token", !.loc = EmptyBlob]]
               /\ usedBackup' = [usedBackup EXCEPT ![req[s].user] =
                     IF Occurrences(req[s].loc.backup_codes,
                                    hash_otp(req[s].code, BackupSalt(req[s].user))) = 0
                     THEN req[s].code ELSE NoCode]
          ELSE /\ req' = [req EXCEPT ![s] = Finish(@, "Failed")]
               /\ UNCHANGED <<prefs, usedBackup>>
    /\ UNCHANGED <<now, session, consumed, issued, varsPay, varsAux>>

\* ------------------------------- PUT /api/settings/security/2fa
\* enabled = true: setup_2fa draws the codes, then reads the blob
SetupStart(s) ==
    /\ CanStart(s)
    /\ \E u \in session, draw \in BackupDraws :
          req' = [req EXCEPT ![s] =
                    [Begin("setup_2fa", u, NoCode, "setup_read")
                        EXCEPT !.loc = SetupData(draw, u)]]
    /\ UNCHANGED <<now, prefs, session, consumed, issued, usedBackup, varsPay, varsAux>>

SetupRead(s) ==
    /\ req[s].pc = "setup_read"
    /\ \E read_ok \in BOOLEAN :
          req' = [req EXCEPT ![s] =
                    IF read_ok
                    THEN [@ EXCEPT !.pc = "setup_write",
                                   !.loc = DictUpdate(prefs[req[s].user], req[s].loc)]
                    ELSE Finish(@, "SetupFailed")]
    /\ UNCHANGED <<now, prefs, session, consumed, issued, usedBackup, varsPay, varsAux>>

\* the write, then notify_user with the plaintext codes
SetupWrite(s) ==
    /\ req[s].pc = "setup_write"
    /\ \E write_ok \in BOOLEAN :
          IF write_ok
          THEN /\ prefs' = [prefs EXCEPT ![req[s].user] = req[s].loc]
               /\ req' = [req EXCEPT ![s] = [@ EXCEPT !.pc = "setup_notify", !.loc = EmptyBlob]]
               /\ usedBackup' = [usedBackup EXCEPT ![req[s].user] = NoCode]
          ELSE /\ req' = [req EXCEPT ![s] = Finish(@, "SetupFailed")]
               /\ UNCHANGED <<prefs, usedBackup>>
    /\ UNCHANGED <<now, session, consumed, issued, varsPay, varsAux>>

SetupNotify(s) ==
    /\ req[s].pc = "setup_notify"
    /\ \E notify_ok \in BOOLEAN :
          req' = [req EXCEPT ![s] =
                    Finish(@, IF notify_ok THEN "SetupOK" ELSE "SetupFailed")]
    /\ UNCHANGED <<now, prefs, session, consumed, issued, usedBackup, varsPay, varsAux>>

\* enabled = false: disable_2fa
DisableStart(s) ==
    /\ CanStart(s)
    /\ \E u \in session :
          req' = [req EXCEPT ![s] = Begin("disable_2fa", u, NoCode, "disable_read")]
    /\ UNCHANGED <<now, prefs, session, consumed, issued, usedBackup, varsPay, varsAux>>

DisableRead(s) ==
    /\ req[s].pc = "disable_read"
    /\ \E read_ok \in BOOLEAN :
          req' = [req EXCEPT ![s] =
                    IF read_ok
                    THEN [@ EXCEPT !.pc = "disable_write",
                                   !.loc = DisabledPrefs(prefs[req[s].user])]
                    ELSE Finish(@, "DisableFailed")]
    /\ UNCHANGED <<now, prefs, session, consumed, issued, usedBackup, varsPay, varsAux>>

DisableWrite(s) ==
    /\ req[s].pc = "disable_write"
    /\ \E write_ok \in BOOLEAN :
          IF write_ok
          THEN /\ prefs' = [prefs EXCEPT ![req[s].user] = req[s].loc]
               /\ req' = [req EXCEPT ![s] = Finish(@, "Disabled")]
          ELSE /\ req' = [req EXCEPT ![s] = Finish(@, "DisableFailed")]
               /\ UNCHANGED prefs
    /\ UNCHANGED <<now, session, consumed, issued, usedBackup, varsPay, varsAux>>

\* ------------------------------ PUT /api/settings/notifications
\* the request body replaces the whole blob in one update
UpdateNotificationPreferences(s) ==
    /\ CanStart(s)
    /\ \E u \in session, data \in PrefInputs, write_ok \in BOOLEAN :
          IF write_ok
          THEN /\ prefs' = [prefs EXCEPT ![u] = data]
               /\ req' = [req EXCEPT ![s] =
                            Finish(Begin("update_notification_preferences", u, NoCode, "done"),
                                   "PrefsUpdated")]
          ELSE /\ req' = [req EXCEPT ![s] =
                            Finish(Begin("update_notification_preferences", u, NoCode, "done"),
                                   "Failed")]
               /\ UNCHANGED prefs
    /\ UNCHANGED <<now, session, consumed, issued, usedBackup, varsPay, varsAux>>

\* ------------------------------------------- transfers and bill payments
\* require_auth, at the arrival of POST /api/transfers
TransferStart(s) ==
    /\ PayCanStart(s)
    /\ started < MaxRequests
    /\ \E u \in Users, token \in TokenInputs, p \in PinInputs :
          LET r == [PayIdle EXCEPT !.op = "create_transfer", !.pc = "tx_enabled",
                                   !.user = u, !.pin = p]
          IN  pay' = [pay EXCEPT ![s] =
                        IF require_auth(token) = "ok" THEN r
                        ELSE PayFinish(r, require_auth(token))]
    /\ started' = started + 1
    /\ writes' = [writes EXCEPT ![s] = <<>>]
    /\ UNCHANGED <<pin, blocked, balance, transfers, bill_payments, transactions,
                   notifications, checks, vars2fa, varsAux>>

\* require_auth, at the arrival of POST /api/bills/<bill_id>/pay
PayBillStart(s) ==
    /\ PayCanStart(s)
    /\ started < MaxRequests
    /\ \E u \in Users, token \in TokenInputs, p \in PinInputs, bill_id \in BillIds :
          LET r == [PayIdle EXCEPT !.op = "pay_bill", !.pc = "tx_enabled",
                                   !.user = u, !.pin = p, !.bill = bill_id]
          IN  pay' = [pay EXCEPT ![s] =
                        IF require_auth(token) = "ok" THEN r
                        ELSE PayFinish(r, require_auth(token))]
    /\ started' = started + 1
    /\ writes' = [writes EXCEPT ![s] = <<>>]
    /\ UNCHANGED <<pin, blocked, balance, transfers, bill_payments, transactions,
                   notifications, checks, vars2fa, varsAux>>

\* require_transactions_enabled: a failed read counts as blocked; then the
\* checks of the PIN that need no store call
RequireTransactionsEnabled(s) ==
    /\ pay[s].pc = "tx_enabled"
    /\ \E read_ok \in BOOLEAN :
          LET transactions_blocked == IF read_ok THEN blocked[pay[s].user] ELSE TRUE
          IN  pay' = [pay EXCEPT ![s] =
                        IF transactions_blocked THEN PayFinish(@, "TransactionsBlocked")
                        ELSE IF CheckPinFormat(pay[s].pin) # "ok"
                             THEN PayFinish(@, CheckPinFormat(pay[s].pin))
                             ELSE [@ EXCEPT !.pc = "pin_read"]]
    /\ UNCHANGED <<pin, blocked, balance, transfers, bill_payments, transactions,
                   notifications, started, writes, checks, vars2fa, varsAux>>

\* the read of transaction_pin_hash and the comparison; in create_transfer the
\* validation of the fields follows, each field drawn where it is first read
VerifyPin(s) ==
    /\ pay[s].pc = "pin_read"
    /\ \E read_ok \in BOOLEAN :
          IF ~read_ok
          THEN pay' = [pay EXCEPT ![s] = PayFinish(@, "PinVerificationFailed")]
          ELSE IF CheckPin(pay[s].pin, pin[pay[s].user]) # "ok"
          THEN pay' = [pay EXCEPT ![s] = PayFinish(@, CheckPin(pay[s].pin, pin[pay[s].user]))]
          ELSE IF pay[s].op = "pay_bill"
          THEN pay' = [pay EXCEPT ![s] = [@ EXCEPT !.pc = "bill_read"]]
          ELSE \E f \in AccountInputs :
                 IF f = "none"
                 THEN pay' = [pay EXCEPT ![s] = PayFinish(@, "SourceRequired")]
                 ELSE \E a \in AmountInputs :
                        IF ValidateAmount(a) # "ok"
                        THEN pay' = [pay EXCEPT ![s] =
                                       PayFinish([@ EXCEPT !.from = f, !.amount = a],
                                                 ValidateAmount(a))]
                        ELSE \E t \in TypeInputs :
                               IF ValidateType(t) # "ok"
                               THEN pay' = [pay EXCEPT ![s] =
                                              PayFinish([@ EXCEPT !.from = f, !.amount = a,
                                                                  !.type = t], ValidateType(t))]
                               ELSE \E e \in ToExternal(TransferType(t)) :
                                      pay' = [pay EXCEPT ![s] =
                                                [@ EXCEPT !.from = f, !.amount = a,
                                                          !.type = TransferType(t),
                                                          !.ext = e, !.pc = "from_read"]]
    /\ UNCHANGED <<pin, blocked, balance, transfers, bill_payments, transactions,
                   notifications, started, writes, checks, vars2fa, varsAux>>

\* pay_bill: the read of the bill (a query that finds no row either raises or
\* returns no data), then data['account_id']
BillRead(s) ==
    /\ pay[s].pc = "bill_read"
    /\ \E read_ok \in BOOLEAN :
          IF ~read_ok
          THEN pay' = [pay EXCEPT ![s] = Crash(@)]
          ELSE IF BillOwner[pay[s].bill] # pay[s].user
          THEN \E raises \in BOOLEAN :
                 pay' = [pay EXCEPT ![s] =
                           IF raises THEN Crash(@) ELSE PayFinish(@, "BillNotFound")]
          ELSE \E account_id \in AccountInputs :
                 pay' = [pay EXCEPT ![s] =
                           IF account_id = "none" THEN Crash(@)
                           ELSE [@ EXCEPT !.pc = "from_read", !.from = account_id]]
    /\ UNCHANGED <<pin, blocked, balance, transfers, bill_payments, transactions,
                   notifications, started, writes, checks, vars2fa, varsAux>>

\* mutant: the query does not filter on the user
OwnedBy_AnyUser(account_id, u, read_ok) == read_ok /\ account_id \in Accounts

\* verify_account_ownership on an account id: the row, if the query gives one
OwnedBy(account_id, u, read_ok) ==
    read_ok /\ account_id \in Accounts /\ AccountOwner[account_id] = u

\* create_transfer after the source account is read: the balance check, then
\* the recipient of the transfer type
TransferAfterSource(r) ==
    IF ~check_sufficient_balance(r.from_balance, r.amount.v)
    THEN {PayFinish(r, "InsufficientFunds")}
    ELSE IF r.type = "internal"
    THEN { IF to_account_id = "none" THEN PayFinish(r, "DestinationRequired")
           ELSE [r EXCEPT !.to = to_account_id, !.status = "completed", !.pc = "to_read"] :
           to_account_id \in AccountInputs }
    ELSE IF r.type = "external"
    THEN { IF ValidateExternal(r.ext) # "ok" THEN PayFinish(r, ValidateExternal(r.ext))
           ELSE [r EXCEPT !.status = "pending", !.pc = "insert_row"] }
    ELSE { IF ValidateP2p(r.ext) # "ok" THEN PayFinish(r, ValidateP2p(r.ext))
           ELSE [r EXCEPT !.status = "pending", !.pc = "insert_row"] }

\* pay_bill after the account is read: float(data['amount']), then the balance check
PayBillAfterAccount(r) ==
    { IF a.kind # "num" THEN Crash(r)
      ELSE IF ~check_sufficient_balance(r.from_balance, a.v)
           THEN PayFinish([r EXCEPT !.amount = a], "InsufficientFunds")
           ELSE [r EXCEPT !.amount = a, !.status = "completed", !.pc = "insert_row"] :
      a \in AmountInputs }

\* verify_account_ownership of the source account, and what follows up to the
\* next store call
SourceRead(s) ==
    /\ pay[s].pc = "from_read"
    /\ \E read_ok \in BOOLEAN :
          IF ~OwnedBy(pay[s].from, pay[s].user, read_ok)
          THEN pay' = [pay EXCEPT ![s] = PayFinish(@, "AccountNotFound")]
          ELSE LET r == [pay[s] EXCEPT !.from_balance = balance[pay[s].from]]
               IN  \E r2 \in (IF r.op = "pay_bill" THEN PayBillAfterAccount(r)
                                                  ELSE TransferAfterSource(r)) :
                      pay' = [pay EXCEPT ![s] = r2]
    /\ UNCHANGED <<pin, blocked, balance, transfers, bill_payments, transactions,
                   notifications, started, writes, checks, vars2fa, varsAux>>

\* verify_account_ownership of the destination account of an internal transfer
DestinationRead(s) ==
    /\ pay[s].pc = "to_read"
    /\ \E read_ok \in BOOLEAN :
          pay' = [pay EXCEPT ![s] =
                    IF ~OwnedBy(pay[s].to, pay[s].user, read_ok)
                    THEN PayFinish(@, "DestinationDenied")
                    ELSE [@ EXCEPT !.to_balance = balance[pay[s].to], !.pc = "insert_row"]]
    /\ UNCHANGED <<pin, blocked, balance, transfers, bill_payments, transactions,
                   notifications, started, writes, checks, vars2fa, varsAux>>

\* mutant: every transfer row is inserted with status pending
TransferRow_Pending(r) ==
    [user_id |-> r.user, from_account_id |-> r.from, to_account_id |-> r.to,
     to_external |-> r.ext, amount |-> r.amount.v, transfer_type |-> r.type,
     status |-> "pending"]

\* transfer_data of create_transfer
TransferRow(r) ==
    [user_id |-> r.user, from_account_id |-> r.from, to_account_id |-> r.to,
     to_external |-> r.ext, amount |-> r.amount.v, transfer_type |-> r.type,
     status |-> r.status]

\* payment_data of pay_bill
PaymentRow(r) ==
    [user_id |-> r.user, bill_id |-> r.bill, account_id |-> r.from,
     amount |-> r.amount.v, status |-> r.status]

\* the insert of the transfer row or of the bill payment row
InsertRow(s) ==
    /\ pay[s].pc = "insert_row"
    /\ \E insert_ok \in BOOLEAN :
          IF insert_ok
          THEN /\ IF pay[s].op = "pay_bill"
                  THEN /\ bill_payments' = Append(bill_payments, PaymentRow(pay[s]))
                       /\ UNCHANGED transfers
                  ELSE /\ transfers' = Append(transfers, TransferRow(pay[s]))
                       /\ UNCHANGED bill_payments
               /\ pay' = [pay EXCEPT ![s] = [@ EXCEPT !.pc = "debit"]]
               /\ Recorded(s, "row")
          ELSE /\ pay' = [pay EXCEPT ![s] = Crash(@)]
               /\ UNCHANGED <<transfers, bill_payments, writes>>
    /\ UNCHANGED <<pin, blocked, balance, transactions, notifications, started, checks, vars2fa, varsAux>>

\* update_account_balance of the source account with the balance that was
\* read, less the amount
DebitBalance(s) ==
    /\ pay[s].pc = "debit"
    /\ \E write_ok \in BOOLEAN :
          IF write_ok
          THEN /\ balance' = [balance EXCEPT ![pay[s].from] =
                                DebitedBalance(pay[s].from_balance, pay[s].amount.v)]
               /\ pay' = [pay EXCEPT ![s] = [@ EXCEPT !.pc = "debit_tx"]]
               /\ Recorded(s, "balance")
          ELSE /\ pay' = [pay EXCEPT ![s] = Crash(@)]
               /\ UNCHANGED <<balance, writes>>
    /\ UNCHANGED <<pin, blocked, transfers, bill_payments, transactions, notifications,
                   started, checks, vars2fa, varsAux>>

\* create_transaction_record for the debit
DebitTransaction(s) ==
    /\ pay[s].pc = "debit_tx"
    /\ \E insert_ok \in BOOLEAN :
          IF insert_ok
          THEN /\ transactions' =
                     Append(transactions,
                            TransactionRow(pay[s].from, "debit", pay[s].amount.v,
                                           IF pay[s].op = "pay_bill" THEN "bill_payment"
                                                                     ELSE "transfer"))
               /\ pay' = [pay EXCEPT ![s] =
                            [@ EXCEPT !.pc = IF pay[s].type = "internal" /\ pay[s].to # "none"
                                             THEN "credit" ELSE "notify_read"]]
               /\ Recorded(s, "debit_tx")
          ELSE /\ pay' = [pay EXCEPT ![s] = Crash(@)]
               /\ UNCHANGED <<transactions, writes>>
    /\ UNCHANGED <<pin, blocked, balance, transfers, bill_payments, notifications,
                   started, checks, vars2fa, varsAux>>

\* internal transfer: update_account_balance of the destination account with
\* the balance that was read, plus the amount
CreditBalance(s) ==
    /\ pay[s].pc = "credit"
    /\ \E write_ok \in BOOLEAN :
          IF write_ok
          THEN /\ balance' = [balance EXCEPT ![pay[s].to] =
                                CreditedBalance(pay[s].to_balance, pay[s].amount.v)]
               /\ pay' = [pay EXCEPT ![s] = [@ EXCEPT !.pc = "credit_tx"]]
               /\ Recorded(s, "credit_balance")
          ELSE /\ pay' = [pay EXCEPT ![s] = Crash(@)]
               /\ UNCHANGED <<balance, writes>>
    /\ UNCHANGED <<pin, blocked, transfers, bill_payments, transactions, notifications,
                   started, checks, vars2fa, varsAux>>

\* internal transfer: create_transaction_record for the credit
CreditTransaction(s) ==
    /\ pay[s].pc = "credit_tx"
    /\ \E insert_ok \in BOOLEAN :
          IF insert_ok
          THEN /\ transactions' =
                     Append(transactions,
                            TransactionRow(pay[s].to, "credit", pay[s].amount.v, "transfer"))
               /\ pay' = [pay EXCEPT ![s] = [@ EXCEPT !.pc = "notify_read"]]
               /\ Recorded(s, "credit_tx")
          ELSE /\ pay' = [pay EXCEPT ![s] = Crash(@)]
               /\ UNCHANGED <<transactions, writes>>
    /\ UNCHANGED <<pin, blocked, balance, transfers, bill_payments, notifications,
                   started, checks, vars2fa, varsAux>>

\* notify_user: the read of the notification preferences
NotifyRead(s) ==
    /\ pay[s].pc = "notify_read"
    /\ \E read_ok \in BOOLEAN :
          pay' = [pay EXCEPT ![s] =
                    IF read_ok THEN [@ EXCEPT !.pc = "notify_log"] ELSE Crash(@)]
    /\ UNCHANGED <<pin, blocked, balance, transfers, bill_payments, transactions,
                   notifications, started, writes, checks, vars2fa, varsAux>>

\* the notification_type the handler passes to notify_user
NotificationType(r) ==
    IF r.op = "pay_bill" THEN "bill_payment"
    ELSE IF r.op = "deposit_check" THEN "check_deposit"
    ELSE "transfer"

\* notify_user: log_notification, which swallows a failed insert, then the
\* email, whose failure is swallowed too; the handler answers 201
NotifyLog(s) ==
    /\ pay[s].pc = "notify_log"
    /\ \E insert_ok \in BOOLEAN :
          IF insert_ok
          THEN /\ notifications' =
                     Append(notifications,
                            [user_id |-> pay[s].user, type |-> NotificationType(pay[s])])
               /\ Recorded(s, "notification")
          ELSE UNCHANGED <<notifications, writes>>
    /\ pay' = [pay EXCEPT ![s] = PayFinish(@, "Created")]
    /\ UNCHANGED <<pin, blocked, balance, transfers, bill_payments, transactions,
                   started, checks, vars2fa, varsAux>>

\* ------------------------------------------- POST /api/checks/deposit
\* require_auth, then the validation of the fields, each drawn where it is
\* first read; no other decorator guards the handler
DepositStart(s) ==
    /\ PayCanStart(s)
    /\ started < MaxRequests
    /\ \E u \in Users, token \in TokenInputs :
          LET r == [PayIdle EXCEPT !.op = "deposit_check", !.user = u]
          IN  IF require_auth(token) # "ok"
              THEN pay' = [pay EXCEPT ![s] = PayFinish(r, require_auth(token))]
              ELSE \E account_id \in AccountInputs :
                     IF account_id = "none"
                     THEN pay' = [pay EXCEPT ![s] = PayFinish(r, "AccountRequired")]
                     ELSE \E a \in CheckAmountInputs :
                            pay' = [pay EXCEPT ![s] =
                                      IF ValidateCheckAmount(a) # "ok"
                                      THEN PayFinish([r EXCEPT !.from = account_id, !.amount = a],
                                                     ValidateCheckAmount(a))
                                      ELSE [r EXCEPT !.from = account_id, !.amount = a,
                                                     !.status = "pending",
                                                     !.pc = "dep_account_read"]]
    /\ started' = started + 1
    /\ writes' = [writes EXCEPT ![s] = <<>>]
    /\ UNCHANGED <<pin, blocked, balance, transfers, bill_payments, transactions,
                   notifications, checks, vars2fa, varsAux>>

\* verify_account_ownership of the account of the deposit
DepositAccountRead(s) ==
    /\ pay[s].pc = "dep_account_read"
    /\ \E read_ok \in BOOLEAN :
          pay' = [pay EXCEPT ![s] =
                    IF ~OwnedBy(pay[s].from, pay[s].user, read_ok)
                    THEN PayFinish(@, "AccountNotFound")
                    ELSE [@ EXCEPT !.from_balance = balance[pay[s].from], !.pc = "dep_insert"]]
    /\ UNCHANGED <<pin, blocked, balance, transfers, bill_payments, transactions,
                   notifications, checks, started, writes, vars2fa, varsAux>>

\* check_data of deposit_check
CheckRow(r) ==
    [user_id |-> r.user, account_id |-> r.from, amount |-> r.amount.v, status |-> r.status]

\* the insert of the check row
DepositInsert(s) ==
    /\ pay[s].pc = "dep_insert"
    /\ \E insert_ok \in BOOLEAN :
          IF insert_ok
          THEN /\ checks' = Append(checks, CheckRow(pay[s]))
               /\ pay' = [pay EXCEPT ![s] = [@ EXCEPT !.pc = "dep_credit"]]
               /\ Recorded(s, "row")
          ELSE /\ pay' = [pay EXCEPT ![s] = Crash(@)]
               /\ UNCHANGED <<checks, writes>>
    /\ UNCHANGED <<pin, blocked, balance, transfers, bill_payments, transactions,
                   notifications, started, vars2fa, varsAux>>

\* update_account_balance with the balance that was read, plus the amount
DepositCredit(s) ==
    /\ pay[s].pc = "dep_credit"
    /\ \E write_ok \in BOOLEAN :
          IF write_ok
          THEN /\ balance' = [balance EXCEPT ![pay[s].from] =
                                CreditedBalance(pay[s].from_balance, pay[s].amount.v)]
               /\ pay' = [pay EXCEPT ![s] = [@ EXCEPT !.pc = "dep_tx"]]
               /\ Recorded(s, "credit_balance")
          ELSE /\ pay' = [pay EXCEPT ![s] = Crash(@)]
               /\ UNCHANGED <<balance, writes>>
    /\ UNCHANGED <<pin, blocked, transfers, bill_payments, transactions, notifications,
                   checks, started, vars2fa, varsAux>>

\* create_transaction_record for the deposit
DepositTransaction(s) ==
    /\ pay[s].pc = "dep_tx"
    /\ \E insert_ok \in BOOLEAN :
          IF insert_ok
          THEN /\ transactions' =
                     Append(transactions,
                            TransactionRow(pay[s].from, "credit", pay[s].amount.v, "deposit"))
               /\ pay' = [pay EXCEPT ![s] = [@ EXCEPT !.pc = "notify_read"]]
               /\ Recorded(s, "credit_tx")
          ELSE /\ pay' = [pay EXCEPT ![s] = Crash(@)]
               /\ UNCHANGED <<transactions, writes>>
    /\ UNCHANGED <<pin, blocked, balance, transfers, bill_payments, notifications,
                   checks, started, vars2fa, varsAux>>

StepDeposit(s) ==
    \/ DepositStart(s) \/ DepositAccountRead(s) \/ DepositInsert(s)
    \/ DepositCredit(s) \/ DepositTransaction(s)

StepPay(s) ==
    \/ TransferStart(s) \/ PayBillStart(s)
    \/ RequireTransactionsEnabled(s) \/ VerifyPin(s) \/ BillRead(s)
    \/ SourceRead(s) \/ DestinationRead(s) \/ InsertRow(s)
    \/ DebitBalance(s) \/ DebitTransaction(s)
    \/ CreditBalance(s) \/ CreditTransaction(s)
    \/ NotifyRead(s) \/ NotifyLog(s)

\* the 2FA side at rest
Init2faAtRest ==
    /\ now = 0
    /\ prefs = [u \in Users |-> EmptyBlob]
    /\ session = Users
    /\ req = [s \in Slots |-> Idle]
    /\ consumed = [u \in Users |-> NoCode]
    /\ issued = [u \in Users |-> NoCode]
    /\ usedBackup = [u \in Users |-> NoCode]

\* the users' PINs are set or not, their transactions blocked or not
InitPay ==
    /\ Init2faAtRest
    /\ InitStore
    /\ pin \in [Users -> StoredPins]
    /\ blocked \in [Users -> BOOLEAN]
    /\ AuxAtRest

\* one request at a time
NextPaySeq == StepPay(1)

\* requests of several workers, interleaved at their store calls
NextPay == \E s \in Slots : StepPay(s)

SpecPaySeq == InitPay /\ [][NextPaySeq]_vars
SpecPay == InitPay /\ [][NextPay]_vars

\* transfers, bill payments and check deposits, one request at a time
NextMoneySeq == StepPay(1) \/ StepDeposit(1)

SpecMoneySeq == InitPay /\ [][NextMoneySeq]_vars

\* transfers, bill payments and check deposits of concurrent workers, each
\* worker serving one request, interleaved at their store calls
StepOnce(s) == pay[s].pc # "done" /\ (StepPay(s) \/ StepDeposit(s))

NextMoney == \E s \in Slots : StepOnce(s)

SpecMoney == InitPay /\ [][NextMoney]_vars

\* ------------------------------------------------- rate limiter
\* one call of check_rate_limit, at the time of the clock
CheckRateLimit ==
    /\ rate_checked < MaxChecks
    /\ \E ip_address \in IPs, action \in RateActions :
          LET c == check_rate_limit(rate_limit_store[ip_address], ip_address, action,
                                    Minutes(now))
          IN  /\ rate_limit_store' = [rate_limit_store EXCEPT ![ip_address] = c.entries]
              /\ rate_allowed' =
                    IF c.allowed
                    THEN [rate_allowed EXCEPT ![ip_address][action] = Append(@, Minutes(now))]
                    ELSE rate_allowed
    /\ rate_checked' = rate_checked + 1
    /\ UNCHANGED <<vars2fa, varsPay, varsNotify, varsAccounts, varsCard, varsAdmin>>

InitRate == Init2faAtRest /\ PayAtRest /\ AuxAtRest

NextRate == Tick \/ CheckRateLimit

SpecRate == InitRate /\ [][NextRate]_vars

\* ------------------------------------------------- notify_user
\* a handler calls notify_user, with or without the subject and the html
NotifyUserStart ==
    /\ notify.pc \in {"idle", "done"}
    /\ notify_calls < MaxNotifies
    /\ \E u \in Users, t \in NotificationTypes, email_subject \in BOOLEAN, email_html \in BOOLEAN :
          notify' = [NotifyIdle EXCEPT !.pc = "prefs_read", !.user = u, !.type = t,
                                       !.subject = email_subject, !.html = email_html]
    /\ notify_calls' = notify_calls + 1
    /\ UNCHANGED <<emails, vars2fa, varsPay, varsRate, varsAccounts, varsCard, varsAdmin>>

\* the read of notification_preferences, which the function does not guard
NotifyUserPrefsRead ==
    /\ notify.pc = "prefs_read"
    /\ \E read_ok \in BOOLEAN :
          notify' = IF read_ok
                    THEN [notify EXCEPT !.pc = "log",
                                        !.should_send_email =
                                            should_send_email(notify.type, prefs[notify.user])]
                    ELSE [notify EXCEPT !.pc = "done", !.res = "Raised"]
    /\ UNCHANGED <<emails, notify_calls, vars2fa, varsPay, varsRate, varsAccounts, varsCard, varsAdmin>>

\* log_notification, which swallows a failed insert
NotifyUserLog ==
    /\ notify.pc = "log"
    /\ LET next == IF notify.should_send_email /\ notify.subject /\ notify.html
                   THEN [notify EXCEPT !.pc = "email_read"]
                   ELSE [notify EXCEPT !.pc = "done", !.res = "Returned"]
       IN  \E insert_ok \in BOOLEAN :
             IF insert_ok
             THEN /\ notifications' =
                        Append(notifications, [user_id |-> notify.user, type |-> notify.type])
                  /\ notify' = [next EXCEPT !.logged = @ + 1]
             ELSE /\ notify' = next
                  /\ UNCHANGED notifications
    /\ UNCHANGED <<emails, notify_calls, vars2fa, varsRate, varsAccounts, varsCard, varsAdmin,
                   pin, blocked, balance, transfers, bill_payments, transactions, checks,
                   pay, started, writes>>

\* get_user_email: None if the row has no email or the read fails
NotifyUserEmailRead ==
    /\ notify.pc = "email_read"
    /\ \E found \in BOOLEAN :
          notify' = IF found THEN [notify EXCEPT !.pc = "send", !.email = "address"]
                    ELSE [notify EXCEPT !.pc = "done", !.email = "none", !.res = "Returned"]
    /\ UNCHANGED <<emails, notify_calls, vars2fa, varsPay, varsRate, varsAccounts, varsCard, varsAdmin>>

\* send_email, which swallows the failure of the mail service
NotifyUserSend ==
    /\ notify.pc = "send"
    /\ emails' = Append(emails, [to |-> notify.user, type |-> notify.type])
    /\ notify' = [notify EXCEPT !.pc = "done", !.sent = TRUE, !.res = "Returned"]
    /\ UNCHANGED <<notify_calls, vars2fa, varsPay, varsRate, varsAccounts, varsCard, varsAdmin>>

\* the users have saved one or another set of preferences
InitNotify ==
    /\ now = 0
    /\ prefs \in [Users -> NotifyPrefInputs]
    /\ session = Users
    /\ req = [s \in Slots |-> Idle]
    /\ consumed = [u \in Users |-> NoCode]
    /\ issued = [u \in Users |-> NoCode]
    /\ usedBackup = [u \in Users |-> NoCode]
    /\ PayAtRest /\ AuxAtRest

NextNotify ==
    \/ NotifyUserStart \/ NotifyUserPrefsRead \/ NotifyUserLog
    \/ NotifyUserEmailRead \/ NotifyUserSend

SpecNotify == InitNotify /\ [][NextNotify]_vars

\* ------------------------------------------------- POST /api/accounts
\* require_auth, at the arrival of the request
CreateAccountStart(s) ==
    /\ acct[s].pc \in {"idle", "done"}
    /\ \A r \in Slots : r < s => acct[r].pc \notin {"idle", "done"}
    /\ acct_started < MaxCreates
    /\ \E u \in Users, token \in TokenInputs, account_type \in AccountTypes :
          LET r == [AcctIdle EXCEPT !.user = u, !.type = account_type]
          IN  acct' = [acct EXCEPT ![s] =
                         IF require_auth(token) = "ok" THEN [r EXCEPT !.pc = "count_read"]
                         ELSE [r EXCEPT !.pc = "done", !.res = require_auth(token)]]
    /\ acct_started' = acct_started + 1
    /\ UNCHANGED <<accounts_table, vars2fa, varsPay, varsRate, varsNotify, varsCard, varsAdmin>>

\* the select of all accounts, whose number of rows picks the account number
CreateAccountRead(s) ==
    /\ acct[s].pc = "count_read"
    /\ \E read_ok \in BOOLEAN :
          acct' = [acct EXCEPT ![s] =
                     IF read_ok THEN [@ EXCEPT !.pc = "insert", !.count = Len(accounts_table)]
                     ELSE [@ EXCEPT !.pc = "done", !.res = "InternalError"]]
    /\ UNCHANGED <<accounts_table, acct_started, vars2fa, varsPay, varsRate, varsNotify, varsCard, varsAdmin>>

\* the insert of the account row
CreateAccountInsert(s) ==
    /\ acct[s].pc = "insert"
    /\ \E insert_ok \in BOOLEAN :
          IF insert_ok
          THEN /\ accounts_table' =
                     Append(accounts_table,
                            AccountRow(acct[s].user, AccountNumberFor(acct[s].count),
                                       acct[s].type))
               /\ acct' = [acct EXCEPT ![s] = [@ EXCEPT !.pc = "notify"]]
          ELSE /\ acct' = [acct EXCEPT ![s] = [@ EXCEPT !.pc = "done", !.res = "InternalError"]]
               /\ UNCHANGED accounts_table
    /\ UNCHANGED <<acct_started, vars2fa, varsPay, varsRate, varsNotify, varsCard, varsAdmin>>

\* notify_user for the new account: the preference read, which may raise,
\* and log_notification, which swallows a failed insert
CreateAccountNotify(s) ==
    /\ acct[s].pc = "notify"
    /\ \E read_ok \in BOOLEAN, insert_ok \in BOOLEAN :
          /\ acct' = [acct EXCEPT ![s] =
                        [@ EXCEPT !.pc = "done",
                                  !.res = IF read_ok THEN "Created" ELSE "InternalError"]]
          /\ notifications' =
                IF read_ok /\ insert_ok
                THEN Append(notifications, [user_id |-> acct[s].user, type |-> "account_created"])
                ELSE notifications
    /\ UNCHANGED <<accounts_table, acct_started, vars2fa, varsRate, varsNotify, varsCard, varsAdmin,
                   pin, blocked, balance, transfers, bill_payments, transactions, checks,
                   pay, started, writes>>

StepAccounts(s) ==
    \/ CreateAccountStart(s) \/ CreateAccountRead(s)
    \/ CreateAccountInsert(s) \/ CreateAccountNotify(s)

\* the table is empty, or all predefined numbers but one have been handed out
InitAccounts ==
    /\ Init2faAtRest /\ PayAtRest /\ RateAtRest /\ NotifyAtRest /\ CardAtRest /\ AdminAtRest
    /\ accounts_table \in {<<>>, CreatedInOrder(Len(predefined_accounts) - 1)}
    /\ acct = [s \in Slots |-> AcctIdle]
    /\ acct_started = 0

\* requests of several workers, interleaved at their store calls
NextAccounts == \E s \in Slots : StepAccounts(s)

SpecAccounts == InitAccounts /\ [][NextAccounts]_vars

\* ------------------------------------------------- card numbers
\* a card is issued: generate_card_number() with its default prefix
GenerateCardNumber ==
    /\ \E random \in RandomDigits(CARD_NUMBER_LENGTH - Len(DefaultPrefix) - 1) :
          card_number' = generate_card_number(DefaultPrefix, random)
    /\ UNCHANGED <<vars2fa, varsPay, varsRate, varsNotify, varsAccounts, varsAdmin>>

InitCard == Init2faAtRest /\ PayAtRest /\ AuxAtRest

NextCard == GenerateCardNumber

SpecCard == InitCard /\ [][NextCard]_vars

\* ------------------------------------------------- tokens, settings, admin
Roles == {"user", "admin"}
Statuses == {"active", "suspended", "blocked"}

\* the payload of create_jwt_token, less the email and the expiry
create_jwt_token(user_id, token_role, token_status) ==
    [user_id |-> user_id, role |-> token_role, account_status |-> token_status]

\* create_jwt_token(auth_response.user.id, data['email']): every caller leaves
\* role, account_status and transactions_blocked at their defaults
LoginToken(u) == create_jwt_token(u, "user", "active")

\* an administrator, whose users row is not modelled; the token of an
\* administrator carries role admin and is issued outside this code
AdminId == "adm"
AdminToken == create_jwt_token(AdminId, "admin", "active")

\* a request without a valid Authorization header
NoToken == create_jwt_token("-", "-", "none")

\* the tokens a request can carry: those issued at login and still valid, the
\* administrator's, or none
CallerTokens == {LoginToken(u) : u \in session} \cup {AdminToken, NoToken}

\* require_admin on the payload of the token
require_admin(user) == IF user.role # "admin" THEN "AdminRequired" ELSE "ok"

\* the user ids an administration route can name
TargetIds == Users \cup {AdminId}

\* the body of PUT /api/settings
SettingsInputs ==
    { [full_name |-> "n"], [role |-> "admin"], [account_status |-> "active"],
      [transactions_blocked |-> FALSE],
      [transaction_pin_hash |-> <<"0", "0", "0", "0", "0", "0">>] }

\* the body of PUT /api/admin/users/<user_id>
AdminUpdateInputs ==
    { [full_name |-> "n"], [role |-> "admin"], [role |-> "user"],
      [account_status |-> "suspended"], [account_status |-> "active"],
      [transactions_blocked |-> TRUE],
      [transaction_pin_hash |-> <<"1", "2", "3", "4", "5", "6">>],
      [transaction_pin_hash |-> <<"1", "2", "3", "4", "5">>],
      [email |-> "e"] }

\* allowed_fields of update_user
allowed_fields ==
    {"full_name", "phone", "address", "preferred_brand", "role", "account_status",
     "transactions_blocked", "transaction_pin_hash"}

\* update_data of update_user: the allowed fields of the body
AllowedData(data) == [k \in DOMAIN data \cap allowed_fields |-> data[k]]

\* pin and isinstance(pin, str) and pin.isdigit() and len(pin) == 6
AdminPinOk(data) ==
    "transaction_pin_hash" \in DOMAIN data
        => isdigit(data.transaction_pin_hash) /\ Len(data.transaction_pin_hash) = PIN_LENGTH

\* table('users').update(data).eq('id', id): the columns the model holds
UsersUpdate(id, data) ==
    /\ role' = IF id \in Users /\ "role" \in DOMAIN data
               THEN [role EXCEPT ![id] = data.role] ELSE role
    /\ account_status' = IF id \in Users /\ "account_status" \in DOMAIN data
                         THEN [account_status EXCEPT ![id] = data.account_status]
                         ELSE account_status
    /\ blocked' = IF id \in Users /\ "transactions_blocked" \in DOMAIN data
                  THEN [blocked EXCEPT ![id] = data.transactions_blocked] ELSE blocked
    /\ pin' = IF id \in Users /\ "transaction_pin_hash" \in DOMAIN data
              THEN [pin EXCEPT ![id] = data.transaction_pin_hash] ELSE pin

UsersUnchanged == UNCHANGED <<role, account_status, blocked, pin>>

\* the request served in this step and its response
Served(operation, user, target, result) ==
    adm' = [op |-> operation, caller |-> user.user_id, role |-> user.role,
            target |-> target, res |-> result]

\* what the administration and settings requests leave alone
AdminFrame ==
    UNCHANGED <<now, prefs, req, consumed, issued, usedBackup,
                balance, transfers, bill_payments, transactions, notifications, checks,
                pay, started, writes, varsRate, varsNotify, varsAccounts, varsCard>>

\* POST /api/auth/login of a user without 2FA: the status of the account is
\* read from the store; an exception is answered 401
LoginWithoutTwoFactor ==
    /\ \E u \in Users, credentials_ok \in BOOLEAN, read_ok \in BOOLEAN :
          LET user == LoginToken(u)
          IN  IF ~credentials_ok \/ ~read_ok
              THEN Served("login", user, u, "InvalidCredentials") /\ UNCHANGED session
              ELSE IF account_status[u] = "blocked"
              THEN Served("login", user, u, "AccountBlocked") /\ UNCHANGED session
              ELSE IF account_status[u] = "suspended"
              THEN Served("login", user, u, "AccountSuspended") /\ UNCHANGED session
              ELSE Served("login", user, u, "LoginOK") /\ session' = session \cup {u}
    /\ UsersUnchanged
    /\ AdminFrame

\* GET /api/settings
GetSettings ==
    /\ \E user \in CallerTokens, read_ok \in BOOLEAN :
          Served("get_settings", user, user.user_id,
                 IF require_auth(user.account_status) # "ok"
                 THEN require_auth(user.account_status)
                 ELSE IF read_ok THEN "Settings" ELSE "InternalError")
    /\ UsersUnchanged
    /\ UNCHANGED session
    /\ AdminFrame

\* PUT /api/settings: the body is the update of the caller's row
UpdateSettings ==
    /\ \E user \in CallerTokens, data \in SettingsInputs, write_ok \in BOOLEAN :
          IF require_auth(user.account_status) # "ok"
          THEN Served("update_settings", user, user.user_id, require_auth(user.account_status))
               /\ UsersUnchanged
          ELSE IF ~write_ok
          THEN Served("update_settings", user, user.user_id, "InternalError") /\ UsersUnchanged
          ELSE Served("update_settings", user, user.user_id, "Updated")
               /\ UsersUpdate(user.user_id, data)
    /\ UNCHANGED session
    /\ AdminFrame

\* an administration route: require_auth, then require_admin
AdminGate(user) ==
    IF require_auth(user.account_status) # "ok" THEN require_auth(user.account_status)
    ELSE require_admin(user)

\* PUT /api/admin/users/<user_id>
UpdateUser ==
    /\ \E user \in CallerTokens, user_id \in TargetIds, data \in AdminUpdateInputs,
          write_ok \in BOOLEAN :
          IF AdminGate(user) # "ok"
          THEN Served("update_user", user, user_id, AdminGate(user)) /\ UsersUnchanged
          ELSE IF ~AdminPinOk(AllowedData(data))
          THEN Served("update_user", user, user_id, "PinMustBe6Digits") /\ UsersUnchanged
          ELSE IF ~write_ok
          THEN Served("update_user", user, user_id, "InternalError") /\ UsersUnchanged
          ELSE Served("update_user", user, user_id, "Updated")
               /\ UsersUpdate(user_id, AllowedData(data))
    /\ UNCHANGED session
    /\ AdminFrame

\* the four routes that set one column of the target's row; the two that
\* block refuse the caller's own id
SetColumn(operation, data, refuses_self) ==
    /\ \E user \in CallerTokens, user_id \in TargetIds, write_ok \in BOOLEAN :
          IF AdminGate(user) # "ok"
          THEN Served(operation, user, user_id, AdminGate(user)) /\ UsersUnchanged
          ELSE IF refuses_self /\ user_id = user.user_id
          THEN Served(operation, user, user_id, "CannotBlockYourself") /\ UsersUnchanged
          ELSE IF ~write_ok
          THEN Served(operation, user, user_id, "InternalError") /\ UsersUnchanged
          ELSE Served(operation, user, user_id, "Updated") /\ UsersUpdate(user_id, data)
    /\ UNCHANGED session
    /\ AdminFrame

\* POST /api/admin/users/<user_id>/block
block_user == SetColumn("block_user", [account_status |-> "blocked"], TRUE)

\* POST /api/admin/users/<user_id>/unblock
unblock_user == SetColumn("unblock_user", [account_status |-> "active"], FALSE)

\* POST /api/admin/users/<user_id>/block-transactions
block_user_transactions ==
    SetColumn("block_user_transactions", [transactions_blocked |-> TRUE], TRUE)

\* POST /api/admin/users/<user_id>/unblock-transactions
unblock_user_transactions ==
    SetColumn("unblock_user_transactions", [transactions_blocked |-> FALSE], FALSE)

\* nobody is logged in; the users' PINs are set or not
InitAdmin ==
    /\ now = 0
    /\ prefs = [u \in Users |-> EmptyBlob]
    /\ session = {}
    /\ req = [s \in Slots |-> Idle]
    /\ consumed = [u \in Users |-> NoCode]
    /\ issued = [u \in Users |-> NoCode]
    /\ usedBackup = [u \in Users |-> NoCode]
    /\ InitStore
    /\ pin \in [Users -> StoredPins]
    /\ blocked = [u \in Users |-> FALSE]
    /\ AuxAtRest

NextAdmin ==
    \/ LoginWithoutTwoFactor \/ GetSettings \/ UpdateSettings \/ UpdateUser
    \/ block_user \/ unblock_user \/ block_user_transactions \/ unblock_user_transactions

SpecAdmin == InitAdmin /\ [][NextAdmin]_vars

\* ------------------------------------------------- specifications
Step2fa(s) ==
    \/ LoginStart(s) \/ LoginIs2faEnabled(s)
    \/ SendOtpRead(s) \/ SendOtpWrite(s) \/ SendOtpNotify(s)
    \/ VerifyStart(s) \/ VerifyOtpRead(s) \/ VerifyOtpWrite(s) \/ IssueToken(s)
    \/ BackupStart(s) \/ BackupRead(s) \/ BackupWrite(s)
    \/ SetupStart(s) \/ SetupRead(s) \/ SetupWrite(s) \/ SetupNotify(s)
    \/ DisableStart(s) \/ DisableRead(s) \/ DisableWrite(s)
    \/ UpdateNotificationPreferences(s)

\* one request at a time: a request runs to its response before the next starts
Next2faSeq == Tick \/ Step2fa(1)

\* requests of several workers, interleaved at their store calls
Next2fa == Tick \/ \E s \in Slots : Step2fa(s)

Spec2faSeq == Init2fa /\ [][Next2faSeq]_vars
Spec2fa == Init2fa /\ [][Next2fa]_vars

\* logins and verifications of users whose 2FA is set up, interleaved
Init2faEnabled ==
    /\ now = 0
    /\ prefs = [u \in Users |-> SetupData(CHOOSE d \in BackupDraws : TRUE, u)]
    /\ session = {}
    /\ req = [s \in Slots |-> Idle]
    /\ consumed = [u \in Users |-> NoCode]
    /\ issued = [u \in Users |-> NoCode]
    /\ usedBackup = [u \in Users |-> NoCode]
    /\ PayAtRest
    /\ AuxAtRest

StepChallenge(s) ==
    \/ LoginStart(s) \/ LoginIs2faEnabled(s)
    \/ SendOtpRead(s) \/ SendOtpWrite(s) \/ SendOtpNotify(s)
    \/ VerifyStart(s) \/ VerifyOtpRead(s) \/ VerifyOtpWrite(s) \/ IssueToken(s)

NextChallenge == Tick \/ \E s \in Slots : StepChallenge(s)

SpecChallenge == Init2faEnabled /\ [][NextChallenge]_vars

\* ==================================================================
\* Claims
\* ==================================================================
Enabled2fa(u) == TwoFactorEnabled(prefs[u])
Attempts(b) == Get(b, "otp_attempts", 0)
\* slot s leaves the step named pc, without a store failure
Leaves(s, pc) == req[s].pc = pc /\ req'[s].pc # pc /\ req'[s].res # "Failed"
\* slot s returns its response in this step
Responds(s) == req[s].pc # "done" /\ req'[s].pc = "done"

\* C2: for a user whose two_factor_enabled flag is true in the store, a
\* session token is issued only after a successful verify_otp or
\* verify_backup_code, never by login itself, also when a store read fails.
C2_TokenOnlyAfterSecondFactor ==
    [][\A s \in Slots :
          (Responds(s) /\ req'[s].res = "LoginOK" /\ Enabled2fa(req[s].user))
             => req[s].pc = "token"]_vars

\* C3: a successful verify clears the stored challenge and resets the attempt
\* counter to 0; a unexpired challenge with attempts left is verified by its
\* code; and a second verify with the same code, no new challenge having
\* been stored, finds no active challenge (for a user whose 2FA is enabled).
C3_VerifySucceedsExactlyOnce ==
    [][\A s \in Slots :
          LET u == req[s].user
              b == prefs[u]
          IN  /\ (req[s].pc = "verify_write" /\ req'[s].pc = "token")
                    => /\ DOMAIN prefs'[u] \cap ChallengeKeys = {}
                       /\ prefs'[u].otp_attempts = 0
                       /\ consumed'[u] = req[s].code
              /\ (/\ Leaves(s, "verify_read")
                  /\ Enabled2fa(u) /\ HasChallenge(b)
                  /\ Minutes(now) <= b.otp_expiry
                  /\ Attempts(b) < MAX_FAILED_ATTEMPTS
                  /\ b.otp_hash = req[s].code \o b.otp_salt)
                    => req'[s].pc = "verify_write" /\ req'[s].res = "Success"
              /\ (/\ Leaves(s, "verify_read")
                  /\ Enabled2fa(u)
                  /\ consumed[u] = req[s].code)
                    => req'[s].pc = "done" /\ req'[s].res = "NoActiveChallenge"]_vars

\* a replayed code has been rejected
C3_Witness ==
    \E s \in Slots :
        /\ req[s].op = "verify_2fa" /\ req[s].pc = "done"
        /\ req[s].res = "NoActiveChallenge"
        /\ consumed[req[s].user] = req[s].code
        /\ Enabled2fa(req[s].user)

\* C4 as stated: once 3 failed attempts are counted against a stored challenge,
\* every further verify returns TooManyAttempts until a new challenge is stored.
C4_Original ==
    [][\A s \in Slots :
          (/\ Leaves(s, "verify_read")
           /\ Enabled2fa(req[s].user) /\ HasChallenge(prefs[req[s].user])
           /\ Attempts(prefs[req[s].user]) >= 3)
             => req'[s].pc = "done" /\ req'[s].res = "TooManyAttempts"]_vars

\* C4 amended: each mismatch adds exactly 1 to the attempt counter; the counter
\* of a stored challenge goes down only when a new challenge is stored; and
\* with 3 attempts counted every verify, also one with the correct code,
\* returns TooManyAttempts and writes nothing, as long as the challenge has
\* not expired.
C4_TooManyAttemptsWhileUnexpired ==
    [][/\ \A s \in Slots :
            LET u == req[s].user
                b == prefs[u]
            IN  /\ (/\ Leaves(s, "verify_read")
                    /\ Enabled2fa(u) /\ HasChallenge(b)
                    /\ Minutes(now) <= b.otp_expiry
                    /\ Attempts(b) >= 3)
                      => /\ req'[s].pc = "done" /\ req'[s].res = "TooManyAttempts"
                         /\ prefs' = prefs
                /\ (/\ Leaves(s, "verify_write") /\ req[s].res = "InvalidCode")
                      => /\ Attempts(prefs'[u]) = Attempts(b) + 1
                         /\ Attempts(prefs'[u]) <= 3
                         /\ HasChallenge(prefs'[u])
                         /\ prefs'[u].otp_hash = b.otp_hash
                         /\ prefs'[u].otp_expiry = b.otp_expiry
       /\ \A u \in Users :
            (/\ HasChallenge(prefs[u]) /\ HasChallenge(prefs'[u])
             /\ \A s \in Slots : ~(req[s].pc = "send_write" /\ req[s].user = u))
               => Attempts(prefs'[u]) >= Attempts(prefs[u])]_vars

\* a verify with the code of the stored challenge has been refused for the count
C4_Witness ==
    \E s \in Slots :
        /\ req[s].op = "verify_2fa" /\ req[s].pc = "done"
        /\ req[s].res = "TooManyAttempts"
        /\ HasChallenge(prefs[req[s].user])
        /\ prefs[req[s].user].otp_hash = req[s].code \o prefs[req[s].user].otp_salt
        /\ Attempts(prefs[req[s].user]) = 3

\* C5: send_otp_email stores expiry = issue time + 10 minutes, and once that expiry
\* has passed verify returns Expired for every code and writes nothing
\* (for a user whose 2FA is enabled).
C5_ExpiredChallengeRejected ==
    [][\A s \in Slots :
          LET u == req[s].user
              b == prefs[u]
          IN  /\ (/\ Leaves(s, "verify_read")
                  /\ Enabled2fa(u) /\ HasChallenge(b)
                  /\ Minutes(now) > b.otp_expiry)
                    => /\ req'[s].pc = "done" /\ req'[s].res = "Expired"
                       /\ prefs' = prefs
              /\ (req[s].pc = "send_write" /\ req'[s].pc = "send_notify")
                    => prefs'[u].otp_expiry = Minutes(req[s].t) + 10]_vars

\* the correct code of an expired challenge has been refused
C5_Witness ==
    \E s \in Slots :
        /\ req[s].op = "verify_2fa" /\ req[s].pc = "done"
        /\ req[s].res = "Expired"
        /\ HasChallenge(prefs[req[s].user])
        /\ prefs[req[s].user].otp_hash = req[s].code \o prefs[req[s].user].otp_salt
        /\ Attempts(prefs[req[s].user]) = 0

\* C6: the stored challenge of a user is the one that the last completed
\* send_otp_email stored, under every interleaving of logins and verifies.
C6_StoredChallengeIsTheLatest ==
    \A u \in Users : HasChallenge(prefs[u]) => prefs[u].otp_hash = issued[u]

\* C7 as stated: a backup code that was consumed is refused with InvalidCode
\* when it is submitted again.
C7_Original ==
    [][\A s \in Slots :
          (/\ Leaves(s, "backup_read")
           /\ Enabled2fa(req[s].user)
           /\ usedBackup[req[s].user] = req[s].code)
             => req'[s].pc = "done" /\ req'[s].res = "InvalidCode"]_vars

\* C7 amended: a successful verify_backup_code removes one occurrence of the
\* hash of the code and leaves the other hashes in place and in order; a code
\* that the list held once is refused when it is submitted again, with
\* InvalidCode while other codes remain and with NoCodesAvailable when it was
\* the last code.
C7_BackupCodeUsedOnce ==
    [][\A s \in Slots :
          LET u == req[s].user
              h == req[s].code \o <<u>>
          IN  /\ (req[s].pc = "backup_write" /\ req'[s].pc = "token")
                    => LET old == prefs[u].backup_codes
                           new == prefs'[u].backup_codes
                       IN  /\ Len(new) = Len(old) - 1
                           /\ \E i \in DOMAIN old :
                                 /\ old[i] = h
                                 /\ \A j \in DOMAIN new :
                                       new[j] = IF j < i THEN old[j] ELSE old[j + 1]
              /\ (/\ Leaves(s, "backup_read")
                  /\ Enabled2fa(u)
                  /\ usedBackup[u] = req[s].code)
                    => /\ req'[s].pc = "done"
                       /\ req'[s].res = IF prefs[u].backup_codes = <<>>
                                        THEN "NoCodesAvailable" ELSE "InvalidCode"]_vars

\* the only code of a list of one has been consumed and then refused
C7_Witness ==
    \E s \in Slots :
        /\ req[s].op = "verify_backup_code" /\ req[s].pc = "done"
        /\ req[s].res = "NoCodesAvailable"
        /\ usedBackup[req[s].user] = req[s].code
        /\ Enabled2fa(req[s].user)

\* C8: after a successful disable_2fa the blob holds no 2FA field (no flag, no
\* backup codes, no pending otp hash, salt, expiry or attempt count), and the other
\* keys of the blob are as before.
TwoFactorKeys == twofa_fields \cup ChallengeKeys \cup {"otp_attempts"}

C8_DisableStripsTwoFactorFields ==
    [][\A s \in Slots :
          LET u == req[s].user IN
          (Leaves(s, "disable_write") /\ req'[s].res = "Disabled")
             => /\ DOMAIN prefs'[u] \cap TwoFactorKeys = {}
                /\ \A k \in DOMAIN prefs[u] \ TwoFactorKeys :
                      k \in DOMAIN prefs'[u] /\ prefs'[u][k] = prefs[u][k]]_vars

\* ------------------------------------------------ PIN gate, balance engine
StoreTables == <<balance, transfers, bill_payments, transactions, notifications, checks>>
GateSteps == {"tx_enabled", "pin_read"}
\* slot s takes this step
Moves(s) == pay'[s] # pay[s]
\* the PIN of the request in slot s is a 6-digit string equal to the stored PIN
SuppliedPinIsStoredPin(r) ==
    /\ r.pin.kind = "str"
    /\ Len(r.pin.chars) = 6
    /\ \A i \in 1..Len(r.pin.chars) : r.pin.chars[i] \in Digits
    /\ r.pin.chars = pin[r.user]
Count(seq, x) == Cardinality({i \in DOMAIN seq : seq[i] = x})
Index(seq, x) == CHOOSE i \in DOMAIN seq : seq[i] = x

\* C1: the PIN gate of a transfer or bill payment writes nothing; a request
\* gets past it only with a PIN that is a 6-digit string equal to the stored
\* PIN; every write of a row, a balance, a Transaction or a notification is
\* made by a request that is past the gate with such a PIN; and a request
\* with any other PIN is answered with a rejection without having written.
C1_PinGateBeforeAnyWrite ==
    [][/\ \A s \in Slots :
            /\ (Moves(s) /\ pay[s].pc \in GateSteps \cup {"idle", "done"})
                  => UNCHANGED StoreTables
            /\ (pay[s].pc = "pin_read" /\ pay'[s].pc \notin {"pin_read", "done"})
                  => SuppliedPinIsStoredPin(pay[s])
            /\ (pay'[s].pc = "done" /\ ~SuppliedPinIsStoredPin(pay'[s]))
                  => /\ writes'[s] = <<>>
                     /\ pay'[s].res \in {"Unauthorized", "AccountBlocked", "AccountSuspended",
                                         "TransactionsBlocked", "PinRequired", "PinFormat",
                                         "PinNotSet", "InvalidPin", "PinVerificationFailed"}
       /\ StoreTables' # StoreTables
            => \E s \in Slots :
                  /\ Moves(s) /\ pay[s].pc \notin GateSteps \cup {"idle", "done"}
                  /\ SuppliedPinIsStoredPin(pay[s])]_vars

\* a 6-digit PIN that is not the stored one has been refused, and the store is untouched
C1_Witness ==
    \E s \in Slots :
        /\ pay[s].pc = "done" /\ pay[s].res = "InvalidPin"
        /\ PinFormatOk(pay[s].pin) /\ pin[pay[s].user] # NoPin
        /\ pay[s].pin.chars # pin[pay[s].user]
        /\ writes[s] = <<>>
        /\ transfers = <<>> /\ bill_payments = <<>> /\ transactions = <<>>
        /\ notifications = <<>>

C10_InsufficientFundsWritesNothing ==
    [][\A s \in Slots :
          /\ (/\ pay[s].pc = "from_read" /\ Moves(s)
              /\ pay'[s].res # "AccountNotFound"
              /\ pay'[s].amount.kind = "num"
              /\ pay'[s].amount.v > balance[pay[s].from])
                => /\ pay'[s].pc = "done" /\ pay'[s].res = "InsufficientFunds"
                   /\ UNCHANGED StoreTables
                   /\ writes'[s] = <<>>
          /\ (pay'[s].pc = "done" /\ pay'[s].res = "InsufficientFunds")
                => writes'[s] = <<>> /\ (Moves(s) => UNCHANGED StoreTables)]_vars

\* a transfer of 4 dollars from the account that holds 3 has been refused
C10_Witness ==
    \E s \in Slots :
        /\ pay[s].pc = "done" /\ pay[s].res = "InsufficientFunds"
        /\ pay[s].op = "create_transfer"
        /\ pay[s].amount.v > balance[pay[s].from]
        /\ balance["a1"] = Dollars(3)
        /\ transfers = <<>> /\ bill_payments = <<>> /\ transactions = <<>>

\* C11: with one request at a time, a transfer of amount A that is answered
\* 201 has debited its source account by A in one balance write and inserted
\* one debit Transaction on it; an internal transfer between two distinct
\* accounts also credits the destination by A in one balance write, inserts
\* one credit Transaction on the destination, and its row has status
\* completed; an external or p2p transfer writes no other balance and no
\* credit Transaction, and its row has status pending.
C11_TransferDebitsOnceCreditsInternal ==
    [][\A s \in Slots :
          LET r == pay[s]
              A == r.amount.v
              internal == r.type = "internal"
          IN  r.op = "create_transfer" =>
              /\ (r.pc = "insert_row" /\ pay'[s].pc = "debit")
                    => /\ Len(transfers') = Len(transfers) + 1
                       /\ transfers'[Len(transfers')].status =
                             (IF internal THEN "completed" ELSE "pending")
                       /\ transfers'[Len(transfers')].amount = A
                       /\ balance' = balance /\ transactions' = transactions
              /\ (r.pc = "debit" /\ pay'[s].pc = "debit_tx")
                    => /\ balance'[r.from] = balance[r.from] - A
                       /\ \A a \in Accounts \ {r.from} : balance'[a] = balance[a]
              /\ (r.pc = "debit_tx" /\ pay'[s].pc \notin {"debit_tx", "done"})
                    => /\ transactions' =
                            Append(transactions, TransactionRow(r.from, "debit", A, "transfer"))
                       /\ pay'[s].pc = (IF internal THEN "credit" ELSE "notify_read")
              /\ (r.pc = "credit" /\ pay'[s].pc = "credit_tx" /\ r.to # r.from)
                    => /\ internal
                       /\ balance'[r.to] = balance[r.to] + A
                       /\ \A a \in Accounts \ {r.to} : balance'[a] = balance[a]
              /\ (r.pc = "credit_tx" /\ pay'[s].pc \notin {"credit_tx", "done"})
                    => transactions' =
                         Append(transactions, TransactionRow(r.to, "credit", A, "transfer"))
              /\ (Moves(s) /\ r.pc \notin {"debit", "credit"}) => balance' = balance
              /\ (Moves(s) /\ r.pc \notin {"debit_tx", "credit_tx"})
                    => transactions' = transactions
              /\ (pay'[s].pc = "done" /\ pay'[s].res = "Created")
                    => LET w == SelectSeq(writes'[s], LAMBDA x : x # "notification")
                       IN  w = IF pay'[s].type = "internal"
                               THEN <<"row", "balance", "debit_tx", "credit_balance", "credit_tx">>
                               ELSE <<"row", "balance", "debit_tx">>]_vars

\* an internal transfer of 2 dollars from the account that held 3 to the
\* account that held 2 has been answered 201
C11_Witness ==
    \E s \in Slots :
        /\ pay[s].pc = "done" /\ pay[s].res = "Created" /\ pay[s].op = "create_transfer"
        /\ pay[s].type = "internal" /\ pay[s].from = "a1" /\ pay[s].to = "a2"
        /\ pay[s].amount = Num(Dollars(2))
        /\ started = 1
        /\ balance["a1"] = Dollars(1) /\ balance["a2"] = Dollars(4)
        /\ transactions = << TransactionRow("a1", "debit", Dollars(2), "transfer"),
                             TransactionRow("a2", "credit", Dollars(2), "transfer") >>
        /\ Len(transfers) = 1 /\ transfers[1].status = "completed"

\* C12: no step of a transfer, bill payment or check deposit of user U changes
\* the balance of an account that U does not own or inserts a Transaction on
\* such an account; an internal transfer whose destination U does not own, and
\* a check deposit into an account U does not own, are rejected when the
\* account is looked up, with no change of the store.
C12_OnlyOwnedAccountsAreTouched ==
    [][\A s \in Slots :
          LET r == pay[s]
              U == pay'[s].user
          IN  Moves(s) =>
              /\ \A a \in Accounts : AccountOwner[a] # U => balance'[a] = balance[a]
              /\ \A i \in DOMAIN transactions' \ DOMAIN transactions :
                    /\ transactions'[i].account_id \in Accounts
                    /\ AccountOwner[transactions'[i].account_id] = U
              /\ (r.pc = "to_read" /\ (r.to \notin Accounts \/ AccountOwner[r.to] # U))
                    => /\ pay'[s].pc = "done" /\ pay'[s].res = "DestinationDenied"
                       /\ UNCHANGED StoreTables /\ writes'[s] = <<>>
              /\ (/\ r.pc \in {"from_read", "dep_account_read"}
                  /\ (r.from \notin Accounts \/ AccountOwner[r.from] # U))
                    => /\ pay'[s].pc = "done" /\ pay'[s].res = "AccountNotFound"
                       /\ UNCHANGED StoreTables /\ writes'[s] = <<>>]_vars

\* an internal transfer from the user's account to the account of another
\* user has been refused, and that account holds what it held
C12_Witness ==
    \E s \in Slots :
        /\ pay[s].pc = "done" /\ pay[s].res = "DestinationDenied"
        /\ pay[s].op = "create_transfer" /\ pay[s].type = "internal"
        /\ AccountOwner[pay[s].from] = pay[s].user
        /\ pay[s].to = "b1" /\ AccountOwner["b1"] # pay[s].user
        /\ balance["b1"] = Dollars(2)
        /\ writes[s] = <<>> /\ transfers = <<>> /\ transactions = <<>>

\* C13: while the transactions_blocked flag of a user is true, no step of a
\* transfer, bill payment or check deposit of that user inserts a row or
\* changes a balance, and no such request is answered 201.
C13_BlockedUserMovesNoMoney ==
    [][\A s \in Slots :
          (Moves(s) /\ pay'[s].user \in Users /\ blocked[pay'[s].user])
             => /\ UNCHANGED StoreTables
                /\ pay'[s].pc = "done" => pay'[s].res # "Created"]_vars

\* the fields of the request are those the validation is meant to let through
AllDigits(str) == \A i \in DOMAIN str : str[i] \in Digits
AmountAndTypeOk(r) ==
    IF r.op = "create_transfer"
    THEN /\ r.amount.kind = "num"
         /\ 0 < r.amount.v /\ r.amount.v <= Dollars(MAX_TRANSFER_DOLLARS)
         /\ r.type \in {"internal", "external", "p2p"}
    ELSE IF r.op = "deposit_check"
    THEN /\ r.amount.kind = "num"
         /\ 0 < r.amount.v /\ r.amount.v <= Dollars(MAX_CHECK_DOLLARS)
    ELSE TRUE
RecipientOk(r) ==
    r.op = "create_transfer" =>
       /\ r.type = "external"
             => /\ Len(r.ext.routing_number) = 9 /\ AllDigits(r.ext.routing_number)
                /\ Len(r.ext.account_number) >= 4 /\ AllDigits(r.ext.account_number)
       /\ r.type = "p2p" => (r.ext.email # "" \/ r.ext.phone # "")
WellFormed(r) == AmountAndTypeOk(r) /\ RecipientOk(r)
ValidationErrors ==
    {"SourceRequired", "AccountRequired", "AmountRequired", "InvalidAmountFormat",
     "AmountNotPositive", "AmountOverLimit", "AmountTooSmall", "InvalidTransferType",
     "DestinationRequired", "ExternalInfoRequired", "InvalidRoutingNumber",
     "InvalidAccountNumber", "RecipientRequired"}

BadRouting(r) ==
    /\ r.op = "create_transfer" /\ r.type = "external"
    /\ ~(Len(r.ext.routing_number) = 9 /\ AllDigits(r.ext.routing_number))

\* C15 as stated: an external transfer whose routing number is not exactly 9
\* digits is answered with a validation error whatever the lookup of its
\* source account gives.
C15_Original ==
    [][\A s \in Slots :
          (BadRouting(pay[s]) /\ pay[s].pc = "from_read" /\ Moves(s))
             => pay'[s].res \in ValidationErrors]_vars

\* C15, amended: an external transfer whose routing number is not exactly 9
\* digits is rejected at the lookup of its source account, before any row is
\* inserted or balance written: with NotFound if the account is missing, not
\* owned by the caller or cannot be read, with InsufficientFunds if its
\* balance is below the amount, and with a validation error otherwise.
C15_BadRoutingRejectedAfterLookup ==
    [][\A s \in Slots :
          LET r == pay[s]
              owned == r.from \in Accounts /\ AccountOwner[r.from] = r.user
              res == pay'[s].res
          IN  (BadRouting(r) /\ r.pc = "from_read" /\ Moves(s))
                 => /\ pay'[s].pc = "done"
                    /\ UNCHANGED StoreTables /\ writes'[s] = <<>>
                    /\ res \in {"AccountNotFound", "InsufficientFunds"} \cup ValidationErrors
                    /\ ~owned => res = "AccountNotFound"
                    /\ res = "InsufficientFunds" <=>
                          (owned /\ res # "AccountNotFound" /\ balance[r.from] < r.amount.v)
                    /\ res \in ValidationErrors
                          => res \in {"ExternalInfoRequired", "InvalidRoutingNumber"}]_vars

\* an external transfer with an 8-digit routing number from an account of
\* another user has been answered "Account not found"
C15_Witness ==
    \E s \in Slots :
        /\ pay[s].pc = "done" /\ pay[s].res = "AccountNotFound"
        /\ pay[s].op = "create_transfer" /\ pay[s].type = "external"
        /\ pay[s].ext.routing_number = Rep(8, "1")
        /\ AccountOwner[pay[s].from] # pay[s].user
        /\ writes[s] = <<>> /\ transfers = <<>>

\* the checks of the action that were allowed for the IP in the window that ends at t
AllowedIn(ip, action, t) ==
    Cardinality({i \in DOMAIN rate_allowed[ip][action] :
                    /\ rate_allowed[ip][action][i] > t - RateWindow(action)
                    /\ rate_allowed[ip][action][i] <= t})

\* C16: per IP, with register and login checks in any order, at most 5
\* register checks are allowed within any rolling hour and at most 10 login
\* checks within any rolling minute.
C16_RateCapsPerWindow ==
    \A ip \in IPs \ {""} : \A t \in 0..Minutes(MaxTime) :
        /\ AllowedIn(ip, "register", t) <= MAX_REGISTRATIONS_PER_HOUR
        /\ AllowedIn(ip, "login", t) <= MAX_LOGINS_PER_MINUTE

\* ------------------------------------------------ notifications
\* C17: every call of notify_user that has ended has appended exactly one
\* Notification row, whatever the preferences, whether or not an email was
\* sent, and whether or not the preference lookup or the email dispatch failed.
C17_OneRowPerNotify ==
    notify.pc = "done" => notify.logged = 1

\* the preference the claim names for a notification type; unset counts as true
PreferenceOf(t, b) ==
    IF t \in {"transaction", "transfer", "account_created"}
    THEN ("email_transactions" \in DOMAIN b => b["email_transactions"])
    ELSE IF t \in {"bill_payment", "bill_due"}
    THEN ("email_bills" \in DOMAIN b => b["email_bills"])
    ELSE IF t \in {"security", "login_alert", "card_issue_reported", "password_changed"}
    THEN ("email_security" \in DOMAIN b => b["email_security"])
    ELSE TRUE

C19_AccountNumbersUnique ==
    \A i \in DOMAIN accounts_table : \A j \in DOMAIN accounts_table :
        i # j => accounts_table[i].account_number # accounts_table[j].account_number

\* ------------------------------------------------ card numbers
\* the Luhn test: from the right, every second digit doubled, the digits of
\* the products and the other digits summed, and the sum a multiple of 10
LuhnValid(digits) ==
    LET n == Len(digits)
        Doubled(d) == IF 2 * d > 9 THEN 2 * d - 9 ELSE 2 * d
        Weighted == [i \in 1..n |-> IF (n - i) % 2 = 1 THEN Doubled(digits[i]) ELSE digits[i]]
    IN  SumSeq(Weighted) % 10 = 0

\* C20: generate_card_number returns a 16-digit number that passes the Luhn
\* test, for every choice of the random digits.
C20_CardNumberLuhnValid ==
    card_number # NoCard
       => /\ Len(card_number) = CARD_NUMBER_LENGTH
          /\ \A i \in DOMAIN card_number : card_number[i] \in 0..9
          /\ LuhnValid(card_number)


\* ------------------------------------------------- concurrent requests
\* the request in slot s was answered 201 and did nothing to account a but
\* debit it
DebitOf(s, a) ==
    /\ pay[s].pc = "done" /\ pay[s].res = "Created"
    /\ pay[s].op \in {"create_transfer", "pay_bill"}
    /\ pay[s].from = a /\ pay[s].to # a
\* the debit Transactions recorded on account a
DebitsOn(a) == {i \in DOMAIN transactions :
                  transactions[i].account_id = a /\ transactions[i].type = "debit"}

\* C21: when two concurrent requests that debit the same account by D1 and D2
\* have both been answered 201, two debit Transactions are recorded on the
\* account and its balance is the opening balance B less D1, less D2 or less
\* both: the update of one request can be lost (the witness), and nothing
\* else can happen to the balance.
C21_ConcurrentDebitsMayLoseAnUpdate ==
    \A a \in Accounts :
        (DebitOf(1, a) /\ DebitOf(2, a)) =>
            LET B == OpeningBalance[a]
                D1 == pay[1].amount.v
                D2 == pay[2].amount.v
            IN  /\ Cardinality(DebitsOn(a)) = 2
                /\ {transactions[i].amount : i \in DebitsOn(a)} = {D1, D2}
                /\ balance[a] \in {B - D1, B - D2, B - D1 - D2}

\* two concurrent debits of 2 dollars on the account opened with 3 have both
\* been answered 201 and the balance is 1 dollar: one update is lost
C21_Witness ==
    /\ DebitOf(1, "a1") /\ DebitOf(2, "a1")
    /\ pay[1].amount.v = Dollars(2) /\ pay[2].amount.v = Dollars(2)
    /\ Cardinality(DebitsOn("a1")) = 2
    /\ balance["a1"] = OpeningBalance["a1"] - Dollars(2)
    /\ balance["a1"] # OpeningBalance["a1"] - Dollars(2) - Dollars(2)

FailsAfterDebit(s) ==
    /\ pay[s].op = "create_transfer" /\ pay[s].type = "internal"
    /\ pay[s].pc \in {"debit_tx", "credit", "credit_tx"}
    /\ pay'[s].pc = "done"
\* the failing step writes nothing and the transfers row of the request is
\* the last one, with status completed
NothingUndone(s) ==
    /\ StoreTables' = StoreTables
    /\ pay'[s].res = "InternalError"
    /\ transfers # <<>>
    /\ transfers[Len(transfers)].from_account_id = pay[s].from
    /\ transfers[Len(transfers)].amount = pay[s].amount.v
    /\ transfers[Len(transfers)].status = "completed"

\* C23 as stated: with one request at a time, when a store call of an
\* internal transfer fails after the source balance write, nothing is undone,
\* the source stays debited, the destination is not credited and the
\* transfers row keeps status completed.
C23_Original ==
    [][\A s \in Slots :
          FailsAfterDebit(s) =>
              LET r == pay[s]
              IN  /\ NothingUndone(s)
                  /\ balance'[r.from] = r.from_balance - r.amount.v
                  /\ r.to # r.from => balance'[r.to] = r.to_balance]_vars

\* C23, amended: with one request at a time, when a store call of an internal
\* transfer fails after the source balance write, nothing is undone and the
\* transfers row keeps status completed; if the failing call is the debit
\* record insert or the destination balance write, the source holds the
\* debited balance and the destination is not credited; if it is the credit
\* record insert, the destination holds the credited balance and the source,
\* if it is another account, the debited one; once the debit Transaction is
\* inserted it stays the last Transaction recorded.
C23_NothingUndoneAfterDebit ==
    [][\A s \in Slots :
          FailsAfterDebit(s) =>
              LET r == pay[s]
                  A == r.amount.v
              IN  /\ NothingUndone(s)
                  /\ r.pc \in {"debit_tx", "credit"}
                        => /\ balance'[r.from] = r.from_balance - A
                           /\ r.to # r.from => balance'[r.to] = r.to_balance
                  /\ r.pc = "credit_tx"
                        => /\ balance'[r.to] = r.to_balance + A
                           /\ r.to # r.from => balance'[r.from] = r.from_balance - A
                  /\ r.pc # "debit_tx"
                        => /\ transactions' # <<>>
                           /\ transactions'[Len(transactions')] =
                                 TransactionRow(r.from, "debit", A, "transfer")]_vars

\* the insert of the credit record of a transfer of 2 dollars from the account
\* opened with 3 to the account opened with 2 has failed: the request is
\* answered 500, the source holds 1 dollar and the destination 4
C23_Witness ==
    /\ pay[1].pc = "done" /\ pay[1].res = "InternalError"
    /\ pay[1].op = "create_transfer" /\ pay[1].from = "a1" /\ pay[1].to = "a2"
    /\ writes[1] = <<"row", "balance", "debit_tx", "credit_balance">>
    /\ balance["a1"] = Dollars(1) /\ balance["a2"] = Dollars(4)
    /\ Len(transfers) = 1 /\ transfers[1].status = "completed"

\* ------------------------------------------------- concurrent verification
\* verify_otp has returned success to the request in slot t, which has not
\* answered yet
HoldsSuccess(t) == req[t].op = "verify_2fa" /\ req[t].pc = "token"
\* the requests in slots s and t carry the code of the same challenge: the
\* same user, the same code and the same salt
SameChallenge(s, t) ==
    /\ req[s].user = req[t].user /\ req[s].code = req[t].code /\ req[s].t = req[t].t

\* C24: with verify requests of concurrent workers interleaved at their store
\* calls, verify_otp does not return success for a challenge for which it
\* has returned success to another request already.
C24_OtpConsumedOnce ==
    [][\A s \in Slots :
          (req[s].op = "verify_2fa" /\ req[s].pc = "verify_write" /\ req'[s].pc = "token")
              => \A t \in Slots \ {s} : ~(HoldsSuccess(t) /\ SameChallenge(s, t))]_vars

\* ------------------------------------------------- delivery of the code
\* C25: a login whose send_otp_email has stored a challenge and returned
\* success has handed the plaintext code of the challenge to send_email,
\* whatever notification preferences the user has saved.
C25_SuccessfulChallengeIsEmailed ==
    [][\A s \in Slots :
          (req[s].pc = "send_notify" /\ req'[s].pc = "done" /\ req'[s].res = "Requires2FA")
              => req'[s].mail = req[s].code]_vars

\* ------------------------------------------------- conservation
\* C26: with one request at a time, an internal transfer that is answered 201
\* leaves the sum of the balances of its source and its destination as the
\* request read them, and every other balance as it was; when the source is
\* the destination, the account ends with the balance the request read.
C26_InternalTransferConservesTotal ==
    [][\A s \in Slots :
          LET r == pay[s]
          IN  (r.op = "create_transfer" /\ r.type = "internal" /\ r.pc = "notify_log"
               /\ pay'[s].pc = "done" /\ pay'[s].res = "Created")
                  => IF r.from = r.to
                     THEN balance'[r.from] = r.from_balance
                     ELSE balance'[r.from] + balance'[r.to] = r.from_balance + r.to_balance]_vars

\* ------------------------------------------------- bill payments
\* C27: with one request at a time, a bill payment changes a balance only in
\* the write of its paying account, which lowers that balance; a payment that
\* is answered 201 has made that write.
C27_BillPaymentOnlyLowersBalance ==
    [][\A s \in Slots :
          (pay[s].op = "pay_bill" /\ Moves(s)) =>
              /\ \A a \in Accounts :
                    balance'[a] # balance[a]
                        => /\ pay[s].pc = "debit" /\ a = pay[s].from
                           /\ balance'[a] < balance[a]
              /\ (pay'[s].pc = "done" /\ pay'[s].res = "Created")
                    => /\ Count(writes'[s], "balance") = 1
                       /\ pay'[s].amount.v > 0]_vars

\* ------------------------------------------------- notification preferences
\* C28: an update of the notification preferences leaves every 2FA key of the
\* user's blob (the enabled flag, the backup codes, the pending challenge and
\* the attempt counters) as it was, so 2FA that setup enabled stays enabled.
C28_PreferencesUpdateKeepsTwoFactor ==
    [][\A s \in Slots :
          (req'[s].op = "update_notification_preferences" /\ req'[s].res = "PrefsUpdated")
              => \A u \in Users :
                    /\ Enabled2fa(u) => TwoFactorEnabled(prefs'[u])
                    /\ \A k \in TwoFactorKeys :
                          /\ (k \in DOMAIN prefs[u]) = (k \in DOMAIN prefs'[u])
                          /\ k \in DOMAIN prefs[u] => prefs'[u][k] = prefs[u][k]]_vars

\* ------------------------------------------------- privileged columns
\* the request served in this step is one of an administrator on an
\* administration route
ByAdmin ==
    /\ adm'.role = "admin"
    /\ adm'.op \in {"update_user", "block_user", "unblock_user",
                    "block_user_transactions", "unblock_user_transactions"}

\* C29: the role, the account_status, the transactions_blocked flag and the
\* stored transaction PIN of a user change only in a step that serves an
\* administrator's request on an administration route.
C29_PrivilegedColumnsChangeByAdminOnly ==
    [][\A u \in Users :
          (role'[u] # role[u] \/ account_status'[u] # account_status[u]
           \/ blocked'[u] # blocked[u] \/ pin'[u] # pin[u]) => ByAdmin]_vars

\* ------------------------------------------------- blocked accounts
\* C30: while the store holds account_status blocked or suspended for a user,
\* every request that user sends to a route behind require_auth, with whatever
\* token the user holds, is answered 403.
C30_BlockedUserIsRejected ==
    [][\A u \in Users :
          (account_status[u] \in {"blocked", "suspended"}
           /\ adm'.caller = u /\ adm'.op # "login")
              => adm'.res \in {"AccountBlocked", "AccountSuspended"}]_vars

====
